---- MODULE Spec2Model ----
(***************************************************************************)
(* Upload bookkeeping, quota protection and resumable upload of the        *)
(* indoor-highlights batch tool (src/src/batch_process.py and              *)
(* src/src/youtube/uploader.py), with the uploader CLI                     *)
(* (src/src/youtube/cli.py) beside it.                                     *)
(*                                                                         *)
(* The specifications share the variables below:                           *)
(*   SpecStore    the Upload State Store functions called one at a time    *)
(*   SpecUpload   one YouTubeUploader.upload call after another            *)
(*   Spec         the batch orchestrator main(), run after run, on one day *)
(*   SpecDays     upload-only runs of main() over several days             *)
(*   SpecRuns     uploading runs of main() on one day, run to their summary*)
(*   SpecWarn     SpecDays after earlier runs of the day have uploaded     *)
(*   SpecRetry    SpecDays with the failed and refused uploads of earlier   *)
(*                runs kept in view                                        *)
(*   SpecCrash    upload_videos statement by statement, with crashes       *)
(*   SpecResults  runs of main() on one day, seen through what they report *)
(*   SpecTwo      two processes running main() on the same state file      *)
(*   SpecClip     the subclip loop of src/src/main.py                      *)
(*   SpecClock    runs of main() from one clock read to the next           *)
(*   SpecCli      SpecClock with uploads made by src/src/youtube/cli.py    *)
(*   SpecUploadFair  SpecUpload with a chunk loop that keeps running       *)
(*   SpecBackoff  the retries of _resumable_upload and their sleeps        *)
(***************************************************************************)
EXTENDS Integers, Sequences, FiniteSets, TLC

VARIABLES
    upload_state,      \* the in-memory state dict (main's upload_state)
    state_file,        \* content of STATE_FILE, or NoFile
    clock,             \* the day datetime.now() reads
    last,              \* SpecStore: the last Upload State Store call and its result
    response,          \* _resumable_upload: local response
    error,             \* _resumable_upload: local error
    retry,             \* _resumable_upload: local retry
    upc,               \* _resumable_upload: where the call is
    uph,               \* _resumable_upload: what the call has done so far
    pc,                \* main: where the run is
    args,              \* main: the parsed command line, but for --dates
    todo,              \* main: the dates of --dates from the current one on
    uploads_this_run,  \* main: uploads_this_run
    on_disk,           \* the artifacts of the current date folder that exist
    run,               \* what the current run has done so far
    remote             \* how often each artifact was uploaded to the remote

upVars == <<response, error, retry, upc, uph>>
mainVars == <<pc, args, todo, uploads_this_run, on_disk, run, remote>>
vars == <<upload_state, state_file, clock, last, response, error, retry, upc, uph,
          pc, args, todo, uploads_this_run, on_disk, run, remote>>

----------------------------------------------------------------------------
(* Bounds of the model *)

MaxClock == 1          \* last day the clock reaches (days are counted from 0)
MaxCount == 5          \* SpecStore: cap on _meta.uploads_today
MaxRecords == 2        \* SpecStore: cap on the number of record_upload calls
MaxChunks == 2         \* SpecUpload: chunks of the uploaded file
MaxLen == 2            \* Spec: longest --dates list
MaxTime == 10          \* SpecClip: longest clip and latest timestamp, in seconds
MaxDone == 3           \* SpecTwo: successful uploads of all processes together
Resolution == 4        \* SpecBackoff: random.random() is k / Resolution, 0 <= k < Resolution
MaxRemote == 2         \* SpecCli, SpecCrash: uploads of one file the remote holds

----------------------------------------------------------------------------
(* Values *)

None == "None"                          \* Python's None
JNull == "null"                         \* JSON's null
NoFile == [absent |-> TRUE]             \* STATE_FILE does not exist
NoState == [unloaded |-> TRUE]          \* no state dict in memory
META == "_meta"

Dates == {"2025-01-13", "2025-01-20"}      \* date folders the caller can name
Kinds == {"full_video", "highlights"}
VideoIds == {"vidA", "vidB"}               \* SpecStore: ids given to record_upload

\* the calendar the clock runs through, one day per tick
Calendar == <<"2026-03-01", "2026-03-02", "2026-03-03", "2026-03-04", "2026-03-05">>

\* datetime.now().strftime("%Y-%m-%d") on day t
strftime(t) == Calendar[t + 1]

\* datetime.now().isoformat() on day t: the date, then the time of day
isoformat(t) == <<strftime(t), "T12:00:00">>

\* dict.get(key, default)
DictGet(d, key, default) == IF key \in DOMAIN d THEN d[key] ELSE default

\* d[key] = value on a dict
DictSet(d, key, value) ==
    [x \in DOMAIN d \cup {key} |-> IF x = key THEN value ELSE d[x]]

EmptyDict == [x \in {} |-> None]

----------------------------------------------------------------------------
(* Upload State Store: src/src/batch_process.py *)

\* json.dump of a state dict: None is written as null
json_dump(s) ==
    [x \in DOMAIN s |->
        IF x = META
        THEN [f \in DOMAIN s[x] |->
                 IF f = "last_upload_date" /\ s[x][f] = None THEN JNull ELSE s[x][f]]
        ELSE s[x]]

\* json.load of a state file: null is read as None
json_load(f) ==
    [x \in DOMAIN f |->
        IF x = META
        THEN [g \in DOMAIN f[x] |->
                 IF g = "last_upload_date" /\ f[x][g] = JNull THEN None ELSE f[x][g]]
        ELSE f[x]]

FreshState == [x \in {META} |-> [uploads_today |-> 0, last_upload_date |-> None]]

\* a load that reads the counters of the file and leaves its entries behind
load_upload_state_meta_only(file) ==
    IF file # NoFile /\ META \in DOMAIN json_load(file)
    THEN [x \in {META} |-> json_load(file)[META]]
    ELSE FreshState

\* a load that ignores the file
load_upload_state_always_fresh(file) == FreshState

load_upload_state(file) ==
    IF file # NoFile THEN json_load(file) ELSE FreshState

\* the stored counter, with no reset on a new day
get_uploads_today_no_rollover(s, now) ==
    DictGet(DictGet(s, META, EmptyDict), "uploads_today", 0)

get_uploads_today(s, now) ==
    LET meta == DictGet(s, META, EmptyDict)
        last_date == DictGet(meta, "last_upload_date", None)
        today == strftime(now)
    IN  IF last_date # today THEN 0 ELSE DictGet(meta, "uploads_today", 0)

\* an increment that never resets the counter on a new day
increment_upload_count_no_reset(s, now) ==
    DictSet(s, META,
        DictSet(DictSet(s[META], "uploads_today", s[META]["uploads_today"] + 1),
                "last_upload_date", strftime(now)))

\* an increment that restarts the counter on a new day and leaves the old
\* date in place
increment_upload_count_stale_date(s, now) ==
    LET today == strftime(now)
        s1 == IF META \notin DOMAIN s THEN DictSet(s, META, EmptyDict) ELSE s
        m == s1[META]
    IN  IF DictGet(m, "last_upload_date", None) # today
        THEN DictSet(s1, META,
                 DictSet(DictSet(m, "uploads_today", 1), "last_upload_date",
                         DictGet(m, "last_upload_date", None)))
        ELSE DictSet(s1, META,
                 DictSet(m, "uploads_today", DictGet(m, "uploads_today", 0) + 1))

\* the dict after increment_upload_count (which then saves it)
increment_upload_count(s, now) ==
    LET today == strftime(now)
        s1 == IF META \notin DOMAIN s THEN DictSet(s, META, EmptyDict) ELSE s
        m == s1[META]
    IN  IF DictGet(m, "last_upload_date", None) # today
        THEN DictSet(s1, META,
                 DictSet(DictSet(m, "uploads_today", 1), "last_upload_date", today))
        ELSE DictSet(s1, META,
                 DictSet(m, "uploads_today", DictGet(m, "uploads_today", 0) + 1))

\* a write that is put off: the file keeps its content
save_upload_state_deferred(s) == state_file

\* the file content save_upload_state writes
save_upload_state(s) == json_dump(s)

\* STATE_FILE after open(STATE_FILE, "w") and before json.dump has written
\* and the file is closed: the old content is gone, the new one is not there
Truncated == [truncated |-> TRUE]

\* STATE_FILE holding a dump followed by the tail of a longer dump, len
\* characters in all
Garbled(len) == [garbled |-> TRUE, len |-> len]

\* json.load raises JSONDecodeError on an empty file and on a garbled one
json_load_raises(file) == file = Truncated \/ "garbled" \in DOMAIN file

\* datetime.now().isoformat() on day t at a time of day with the given
\* microsecond: the fraction is left out when the microsecond is 0
isoformat_at(t, microsecond) ==
    IF microsecond = 0 THEN isoformat(t) ELSE <<strftime(t), "T12:00:00.123456">>

\* the characters json.dump(state, f, indent=2) writes for a state dict with
\* both counters in _meta and ids of 11 characters: 73 for the state without
\* entries, 8 more with a date in place of null, one more with a second
\* digit of uploads_today, 22 for each date, 105 for each entry and 7 more
\* for an entry whose uploaded_at has a fraction
json_length(s) ==
    73 + (IF s[META]["last_upload_date"] = None THEN 0 ELSE 8)
       + (IF s[META]["uploads_today"] >= 10 THEN 1 ELSE 0)
       + 22 * Cardinality(DOMAIN s \ {META})
       + 105 * Cardinality({<<d, k>> \in (DOMAIN s \ {META}) \X Kinds : k \in DOMAIN s[d]})
       + 7 * Cardinality({<<d, k>> \in (DOMAIN s \ {META}) \X Kinds :
                             k \in DOMAIN s[d] /\ s[d][k].uploaded_at[2] # "T12:00:00"})

\* the characters STATE_FILE holds
file_length(file) ==
    IF file = NoFile \/ file = Truncated THEN 0
    ELSE IF "garbled" \in DOMAIN file THEN file.len
    ELSE json_length(json_load(file))

\* the file after a process that has opened it with "w" writes its dump and
\* closes: the dump goes to the start of the file, and what another process
\* has written beyond its end since the open stays
dump_and_close(s, file) ==
    IF json_length(s) >= file_length(file) THEN save_upload_state(s)
    ELSE Garbled(file_length(file))

is_video_uploaded(s, date, video_type) ==
    date \in DOMAIN s /\ video_type \in DOMAIN s[date]

\* a record that files the entry under the other kind of the date
record_upload_other_kind(s, date, video_type, video_id, now) ==
    LET s1 == IF date \notin DOMAIN s THEN DictSet(s, date, EmptyDict) ELSE s
        other == CHOOSE k \in Kinds : k # video_type
    IN  DictSet(s1, date,
            DictSet(s1[date], other,
                [youtube_id |-> video_id, uploaded_at |-> isoformat(now)]))

\* a record that starts the date's dict afresh: the other entry of the date
\* is lost
record_upload_replaces_date(s, date, video_type, video_id, now) ==
    DictSet(s, date,
        DictSet(EmptyDict, video_type,
            [youtube_id |-> video_id, uploaded_at |-> isoformat(now)]))

\* a record that keeps the entry already there (first write wins)
record_upload_keep_first(s, date, video_type, video_id, now) ==
    IF date \in DOMAIN s /\ video_type \in DOMAIN s[date]
    THEN s
    ELSE DictSet(s, date,
             DictSet(DictGet(s, date, EmptyDict), video_type,
                 [youtube_id |-> video_id, uploaded_at |-> isoformat(now)]))

\* the dict after record_upload (which then saves it)
record_upload(s, date, video_type, video_id, now) ==
    LET s1 == IF date \notin DOMAIN s THEN DictSet(s, date, EmptyDict) ELSE s
    IN  DictSet(s1, date,
            DictSet(s1[date], video_type,
                [youtube_id |-> video_id, uploaded_at |-> isoformat(now)]))

\* the (date, kind) keys that have an entry
Entries(s) == {<<d, k>> \in (DOMAIN s \ {META}) \X Kinds : k \in DOMAIN s[d]}

----------------------------------------------------------------------------
(* SpecStore: the Upload State Store functions, called one at a time by a    *)
(* process that may exit and start again.                                    *)

Loaded == upload_state # NoState

\* the youtube_id the dict holds for (date, kind), None when it holds none
HeldId(s, date, kind) ==
    IF date \in DOMAIN s /\ kind \in DOMAIN s[date] THEN s[date][kind].youtube_id ELSE None

\* a call of the store: its arguments, what it returned, the id record_upload
\* overwrote, the number of record_upload calls so far, the dict last saved
Call(op, date, kind, vid, ret, old, nrec, saved) ==
    [op |-> op, date |-> date, kind |-> kind, vid |-> vid, ret |-> ret,
     old |-> old, nrec |-> nrec, saved |-> saved]

InitUploader ==
    /\ response = None
    /\ error = None
    /\ retry = 0
    /\ upc = "idle"
    /\ uph = None

\* no run of main is in progress
NoArgs == [none |-> TRUE]
NoRun == [none |-> TRUE]

InitMain ==
    /\ pc = "idle"
    /\ args = NoArgs
    /\ todo = <<>>
    /\ uploads_this_run = 0
    /\ on_disk = {}
    /\ run = NoRun
    /\ remote = [a \in Dates \X Kinds |-> 0]

InitStore ==
    /\ upload_state = NoState
    /\ state_file = NoFile
    /\ clock = 0
    /\ last = Call("start", None, None, None, None, None, 0, NoState)
    /\ InitUploader
    /\ InitMain

\* upload_state = load_upload_state()
ApiLoad ==
    /\ upload_state' = load_upload_state(state_file)
    /\ last' = Call("load_upload_state", None, None, None, None, None,
                    last.nrec, last.saved)
    /\ UNCHANGED <<state_file, clock>>
    /\ UNCHANGED upVars
    /\ UNCHANGED mainVars

\* get_uploads_today(upload_state)
ApiGetUploadsToday ==
    /\ Loaded
    /\ last' = Call("get_uploads_today", None, None, None,
                    get_uploads_today(upload_state, clock), None,
                    last.nrec, last.saved)
    /\ UNCHANGED <<upload_state, state_file, clock>>
    /\ UNCHANGED upVars
    /\ UNCHANGED mainVars

\* increment_upload_count(upload_state)
ApiIncrement ==
    /\ Loaded
    /\ upload_state[META]["uploads_today"] < MaxCount
    /\ upload_state' = increment_upload_count(upload_state, clock)
    /\ state_file' = save_upload_state(upload_state')
    /\ last' = Call("increment_upload_count", None, None, None, None, None,
                    last.nrec, upload_state')
    /\ UNCHANGED clock
    /\ UNCHANGED upVars
    /\ UNCHANGED mainVars

\* is_video_uploaded(upload_state, date, video_type)
ApiIsUploaded(date, video_type) ==
    /\ Loaded
    /\ last' = Call("is_video_uploaded", date, video_type, None,
                    is_video_uploaded(upload_state, date, video_type), None,
                    last.nrec, last.saved)
    /\ UNCHANGED <<upload_state, state_file, clock>>
    /\ UNCHANGED upVars
    /\ UNCHANGED mainVars

\* record_upload(upload_state, date, video_type, video_id)
ApiRecord(date, video_type, video_id) ==
    /\ Loaded
    /\ last.nrec < MaxRecords
    /\ upload_state' = record_upload(upload_state, date, video_type, video_id, clock)
    /\ state_file' = save_upload_state(upload_state')
    /\ last' = Call("record_upload", date, video_type, video_id, None,
                    HeldId(upload_state, date, video_type),
                    last.nrec + 1, upload_state')
    /\ UNCHANGED clock
    /\ UNCHANGED upVars
    /\ UNCHANGED mainVars

\* save_upload_state(upload_state), called on its own: the dict in memory is
\* written to the file, which is created when there was none
ApiSave ==
    /\ Loaded
    /\ state_file' = save_upload_state(upload_state)
    /\ last' = Call("save_upload_state", None, None, None, None, None,
                    last.nrec, upload_state)
    /\ UNCHANGED <<upload_state, clock>>
    /\ UNCHANGED upVars
    /\ UNCHANGED mainVars

\* the process exits: the in-memory dict is gone, the file stays
ApiExit ==
    /\ Loaded
    /\ upload_state' = NoState
    /\ last' = Call("exit", None, None, None, None, None, last.nrec, last.saved)
    /\ UNCHANGED <<state_file, clock>>
    /\ UNCHANGED upVars
    /\ UNCHANGED mainVars

\* midnight passes
ApiNextDay ==
    /\ clock < MaxClock
    /\ clock' = clock + 1
    /\ last' = Call("midnight", None, None, None, None, None, last.nrec, last.saved)
    /\ UNCHANGED <<upload_state, state_file>>
    /\ UNCHANGED upVars
    /\ UNCHANGED mainVars

NextStore ==
    \/ ApiLoad
    \/ ApiGetUploadsToday
    \/ ApiIncrement
    \/ \E d \in Dates, k \in Kinds : ApiIsUploaded(d, k)
    \/ \E d \in Dates, k \in Kinds, v \in VideoIds : ApiRecord(d, k, v)
    \/ ApiSave
    \/ ApiExit
    \/ ApiNextDay

SpecStore == InitStore /\ [][NextStore]_vars

----------------------------------------------------------------------------
(* Resumable Uploader: src/src/youtube/uploader.py                           *)
(* SpecUpload: one _resumable_upload call after another, the remote          *)
(* answering each next_chunk as it likes.                                    *)

MAX_RETRIES == 10
RETRIABLE_STATUS_CODES == {500, 502, 503, 504}

\* the statuses an HttpError of next_chunk carries in the model
HttpStatuses == {400, 401, 403, 404, 500, 502, 503, 504}

\* e.resp.status == 403 and "quotaExceeded" in str(e)
IsQuotaExceeded_never(status, quota_in_text) == FALSE

IsQuotaExceeded(status, quota_in_text) == status = 403 /\ quota_in_text

\* every HttpError taken for a retriable one
IsRetriableStatus_all(status) == TRUE

\* e.resp.status in RETRIABLE_STATUS_CODES
IsRetriableStatus(status) == status \in RETRIABLE_STATUS_CODES

\* retry > MAX_RETRIES, with the comparison off by one either way
RetriesExhausted_early(r) == r >= MAX_RETRIES

RetriesExhausted_late(r) == r > MAX_RETRIES + 1

\* a retry budget that never runs out
RetriesExhausted_never(r) == FALSE

\* retry > MAX_RETRIES
RetriesExhausted(r) == r > MAX_RETRIES

\* the file check of upload() forgotten
FileMissing_never(file_exists) == FALSE

\* not video_file.exists()
FileMissing(file_exists) == ~file_exists

\* what upload() does between the file check and _resumable_upload: the
\* service is fetched (created when there is none), the insert request is made
NetworkSetup == {"get_service", "insert"}

\* what one call has done: whether its file existed, the network interactions
\* made before the chunk loop, the chunks of its file, the next_chunk requests
\* issued, the chunks acknowledged, the retriable failures met, the backoff
\* sleeps taken, the value of retry when the latest request was issued, the
\* remote's answer to the latest request (with the status and the quota signal
\* of an HttpError), the terminal response the remote sent and the exception
\* raised
History(file_exists, net, chunks, requests, acked, failures, sleeps, req_retry, ev, status, quota, sent, exc) ==
    [file_exists |-> file_exists, net |-> net, chunks |-> chunks, requests |-> requests, acked |-> acked,
     failures |-> failures, sleeps |-> sleeps, req_retry |-> req_retry,
     ev |-> ev, status |-> status, quota |-> quota, sent |-> sent, exc |-> exc]

\* the history after one more request, issued with the current retry
Requested(ev, status, quota) ==
    [uph EXCEPT !.requests = @ + 1, !.req_retry = retry, !.ev = ev,
                !.status = status, !.quota = quota]

InitUpload ==
    /\ InitUploader
    /\ upload_state = NoState
    /\ state_file = NoFile
    /\ clock = 0
    /\ last = Call("start", None, None, None, None, None, 0, NoState)
    /\ InitMain

InCall == upc = "loop"

\* upload(video_path, ...) is called for a file of `chunks` chunks that exists
\* or not: FileNotFoundError, or _resumable_upload(request) is entered
UpStart(file_exists, chunks) ==
    /\ upc # "loop"
    /\ response' = None
    /\ error' = None
    /\ retry' = 0
    /\ IF FileMissing(file_exists)
       THEN /\ upc' = "raised"
            /\ uph' = History(file_exists, {}, chunks, 0, 0, 0, 0, 0, None, 0, FALSE,
                              None, "FileNotFoundError")
       ELSE /\ upc' = "loop"
            /\ uph' = History(file_exists, NetworkSetup, chunks, 0, 0, 0, 0, 0, None, 0,
                              FALSE, None, None)
    /\ UNCHANGED <<upload_state, state_file, clock, last>>
    /\ UNCHANGED mainVars

\* an acknowledged chunk that sets the retry counter back to 0
ChunkProgress_resets_retry ==
    /\ InCall
    /\ uph.acked + 1 < uph.chunks
    /\ uph' = [Requested("progress", 0, FALSE) EXCEPT !.acked = @ + 1]
    /\ retry' = 0
    /\ UNCHANGED <<response, error, upc>>
    /\ UNCHANGED <<upload_state, state_file, clock, last>>
    /\ UNCHANGED mainVars

\* next_chunk returns (status, None): a chunk that is not the last is acknowledged
ChunkProgress ==
    /\ InCall
    /\ uph.acked + 1 < uph.chunks
    /\ uph' = [Requested("progress", 0, FALSE) EXCEPT !.acked = @ + 1]
    /\ UNCHANGED <<response, error, retry, upc>>
    /\ UNCHANGED <<upload_state, state_file, clock, last>>
    /\ UNCHANGED mainVars

\* next_chunk returns the terminal response: the loop ends, response is returned
ChunkTerminal(video_id) ==
    /\ InCall
    /\ uph.acked + 1 = uph.chunks
    /\ upc' = "returned"
    /\ response' = [id |-> video_id]
    /\ uph' = [Requested("terminal", 0, FALSE) EXCEPT !.acked = @ + 1, !.sent = [id |-> video_id]]
    /\ UNCHANGED <<error, retry>>
    /\ UNCHANGED <<upload_state, state_file, clock, last>>
    /\ UNCHANGED mainVars

\* error = f"Retriable HTTP error {e.resp.status}: {e.content}", up to the
\* content of the response
RetriableHttpError(status) ==
    CASE status = 500 -> "Retriable HTTP error 500"
      [] status = 502 -> "Retriable HTTP error 502"
      [] status = 503 -> "Retriable HTTP error 503"
      [] status = 504 -> "Retriable HTTP error 504"

\* the `if error:` block after a retriable failure
RetryOrGiveUp(h, msg) ==
    /\ retry' = retry + 1
    /\ IF RetriesExhausted(retry')
       THEN /\ upc' = "raised"
            /\ error' = msg
            /\ uph' = [h EXCEPT !.failures = @ + 1, !.exc = "UploadFailedError"]
       ELSE /\ upc' = upc
            /\ error' = None
            /\ uph' = [h EXCEPT !.failures = @ + 1, !.sleeps = @ + 1]
    /\ UNCHANGED response

\* next_chunk raises HttpError with this status; quota_in_text says whether
\* "quotaExceeded" is in str(e)
ChunkHttpError(status, quota_in_text) ==
    /\ InCall
    /\ IF IsQuotaExceeded(status, quota_in_text)
       THEN /\ upc' = "raised"
            /\ uph' = [Requested("http", status, quota_in_text) EXCEPT !.exc = "QuotaExceededError"]
            /\ UNCHANGED <<response, error, retry>>
       ELSE IF IsRetriableStatus(status)
       THEN RetryOrGiveUp(Requested("http", status, quota_in_text), RetriableHttpError(status))
       ELSE /\ upc' = "raised"
            /\ uph' = [Requested("http", status, quota_in_text) EXCEPT !.exc = "UploadFailedError"]
            /\ UNCHANGED <<response, error, retry>>
    /\ UNCHANGED <<upload_state, state_file, clock, last>>
    /\ UNCHANGED mainVars

\* next_chunk raises httplib2.HttpLib2Error or IOError
ChunkTransportError ==
    /\ InCall
    /\ RetryOrGiveUp(Requested("transport", 0, FALSE), "Retriable error")
    /\ UNCHANGED <<upload_state, state_file, clock, last>>
    /\ UNCHANGED mainVars

\* one more next_chunk request of the current call
ChunkRequest ==
    \/ ChunkProgress
    \/ \E v \in VideoIds : ChunkTerminal(v)
    \/ \E st \in HttpStatuses, q \in BOOLEAN : ChunkHttpError(st, q)
    \/ ChunkTransportError

NextUpload ==
    \/ \E e \in BOOLEAN, n \in 1..MaxChunks : UpStart(e, n)
    \/ ChunkProgress
    \/ \E v \in VideoIds : ChunkTerminal(v)
    \/ \E st \in HttpStatuses, q \in BOOLEAN : ChunkHttpError(st, q)
    \/ ChunkTransportError

SpecUpload == InitUpload /\ [][NextUpload]_vars

\* the next_chunk requests the current call has issued
UpRequests == IF upc = "idle" THEN 0 ELSE uph.requests

\* the while loop of _resumable_upload keeps running: a call in progress
\* issues its next request, and next_chunk returns or raises
SpecUploadFair == InitUpload /\ [][NextUpload]_vars /\ WF_UpRequests(ChunkRequest)

----------------------------------------------------------------------------
(* Batch Orchestrator: main(), process_folder and upload_videos of           *)
(* src/src/batch_process.py                                                  *)
(* Spec: one run of main() after another on the same state file. The date    *)
(* folder of the current date, the exit of the processing command and the    *)
(* outcome of every upload_video call are the environment's choice.          *)

MAX_UPLOADS_PER_RUN == 4
UPLOAD_WARNING_THRESHOLD == 6

\* the --dates lists: 1 to MaxLen dates, repeats allowed
DateLists == UNION {[1..n -> Dates] : n \in 1..MaxLen}

\* the --max-uploads values: the default, and small ones down to a negative one
MaxUploadsArgs == {0 - 1, 0, 1, 2, MAX_UPLOADS_PER_RUN}

\* what argparse hands to main (--privacy is only passed on to upload_video)
ArgSets ==
    [upload : BOOLEAN, upload_only : BOOLEAN, dry_run : BOOLEAN, force : BOOLEAN,
     max_uploads : MaxUploadsArgs]

\* the arguments as the date loop reads them: --force only without
\* --upload-only (it is passed to process_folder), --upload only in
\* "args.upload or args.upload_only", --max-uploads only when videos are
\* uploaded; an argument that is never read is kept at its default
LoopArgs(a) ==
    [upload |-> a.upload \/ a.upload_only,
     upload_only |-> a.upload_only,
     dry_run |-> a.dry_run,
     force |-> a.force /\ ~a.upload_only,
     max_uploads |-> IF a.upload \/ a.upload_only THEN a.max_uploads
                     ELSE MAX_UPLOADS_PER_RUN]

\* what check_folder_status can return; mp4_count 1 stands for any count > 0
FolderStatuses ==
    {st \in [exists : BOOLEAN, has_splits_csv : BOOLEAN, has_full_video : BOOLEAN,
             has_highlights : BOOLEAN, mp4_count : {0, 1}] :
        ~st.exists => /\ ~st.has_splits_csv
                      /\ ~st.has_full_video
                      /\ ~st.has_highlights
                      /\ st.mp4_count = 0}

\* the artifacts a folder status shows on disk
ArtifactsOf(st) ==
    {k \in Kinds : \/ k = "full_video" /\ st.has_full_video
                   \/ k = "highlights" /\ st.has_highlights}

need_full_video(st, force) == force \/ ~st.has_full_video

need_highlights(st, force) == (force \/ ~st.has_highlights) /\ st.has_splits_csv

\* the command is run whatever the folder holds
RunsCommand_always(st, force) == st.exists /\ st.mp4_count # 0

\* process_folder runs the processing command
RunsCommand(st, force) ==
    /\ st.exists
    /\ st.mp4_count # 0
    /\ need_full_video(st, force) \/ need_highlights(st, force)

\* the artifacts the processing command is asked to write
Requested_artifacts(st, force) ==
    {k \in Kinds : \/ k = "full_video" /\ need_full_video(st, force)
                   \/ k = "highlights" /\ need_highlights(st, force)}

\* uploads_this_run >= max_uploads, with the comparison off by one
QuotaReached_late(used, max_uploads) == used > max_uploads

\* uploads_this_run >= max_uploads
QuotaReached(used, max_uploads) == used >= max_uploads

\* is_video_uploaded forgotten: nothing counts as uploaded
AlreadyUploaded_never(s, date, video_type) == FALSE

\* the test upload_videos makes before each upload
AlreadyUploaded(s, date, video_type) == is_video_uploaded(s, date, video_type)

\* os.path.exists of the artifact forgotten: every artifact counts as present
ArtifactExists_always(disk, video_type) == TRUE

\* os.path.exists(full_video_path), os.path.exists(highlights_path)
ArtifactExists(disk, video_type) == video_type \in disk

\* the outcomes of one upload_video call: a result, or an exception (all are
\* caught alike by "except Exception")
UploadOutcomes == {"ok", "QuotaExceededError", "UploadFailedError"}

\* the id the remote gives to the n-th upload of an artifact
VideoId(date, kind, n) == <<date, kind, n>>

\* a call the date loop makes: process_folder or upload_videos, the date it
\* is given, how it ends
LoopCall(name, date, end) == [name |-> name, date |-> date, end |-> end]

NoCall == LoopCall(None, None, None)

\* what a run has done: the latest call of the date loop, upload_video calls
\* made, calls that succeeded, whether a call was made with uploads_this_run
\* >= max_uploads, the artifacts the quota guard refused, the kinds for which
\* an upload_video call raised QuotaExceededError; and for the current
\* upload_videos call: the kinds attempted, the upload_video calls in their
\* order (kind, outcome, today's upload count when the call was made), the
\* kinds recorded when it was entered, uploads_this_run then, whether the
\* daily warning was printed
RunHistory(call, calls, ok, over, refused, quota, att, seq, rec0, used0, warned) ==
    [call |-> call, calls |-> calls, ok |-> ok, over |-> over, refused |-> refused,
     quota |-> quota, att |-> att, seq |-> seq, rec0 |-> rec0, used0 |-> used0,
     warned |-> warned]

\* the date of the current loop iteration
CurrentDate == Head(todo)

Init ==
    /\ upload_state = NoState
    /\ state_file = NoFile
    /\ clock = 0
    /\ last = Call("start", None, None, None, None, None, 0, NoState)
    /\ InitUploader
    /\ InitMain

\* --dry-run forgotten: every run is a real one
IsDryRun_never(a) == FALSE

\* if args.dry_run
IsDryRun(a) == a.dry_run

\* main() with --dry-run: the folders are reported, nothing else happens
MainDryRun(a, dates) ==
    /\ pc = "idle"
    /\ IsDryRun(a)
    /\ pc' = "dry_run"
    /\ args' = a
    /\ todo' = dates
    /\ UNCHANGED <<upload_state, state_file, clock, uploads_this_run, on_disk, run,
                   remote>>
    /\ UNCHANGED <<last, upVars>>

\* the dry run returns
DryRunReturn ==
    /\ pc = "dry_run"
    /\ pc' = "idle"
    /\ args' = NoArgs
    /\ todo' = <<>>
    /\ UNCHANGED <<upload_state, state_file, clock, uploads_this_run, on_disk, run,
                   remote>>
    /\ UNCHANGED <<last, upVars>>

\* main() up to the date loop: the state is loaded, uploads_this_run = 0
MainStart(a, dates) ==
    /\ pc = "idle"
    /\ ~IsDryRun(a)
    /\ args' = LoopArgs(a)
    /\ todo' = dates
    /\ upload_state' = load_upload_state(state_file)
    /\ uploads_this_run' = 0
    /\ pc' = "date"
    /\ run' = RunHistory(NoCall, 0, 0, FALSE, {}, {}, {}, <<>>, {}, 0, FALSE)
    /\ UNCHANGED <<state_file, clock, on_disk, remote>>
    /\ UNCHANGED <<last, upVars>>

\* the loop goes to the next date, or ends; todo keeps the dates not visited
NextDate ==
    /\ todo' = Tail(todo)
    /\ pc' = IF Len(todo) > 1 THEN "date" ELSE "summary"

\* the run's history when the loop body is entered: the upload_videos call of
\* the date before is over
NewIteration ==
    [run EXCEPT !.call = NoCall, !.att = {}, !.seq = <<>>, !.rec0 = {}, !.used0 = 0,
                !.warned = FALSE]

\* how process_folder ends: "error" for a missing folder, a folder without
\* source files or a command that exits non-zero (CalledProcessError)
process_folder_end(st, force, exit_ok) ==
    IF ~st.exists \/ st.mp4_count = 0 \/ (RunsCommand(st, force) /\ ~exit_ok)
    THEN "error" ELSE "done"

\* uploads done whether requested or not
UploadRequested_always(a) == TRUE

\* if args.upload or args.upload_only
UploadRequested(a) == a.upload \/ a.upload_only

\* the loop body without --upload-only: process_folder(date, force) on a folder
\* in status st, the command (when run) having exited with 0 or not and
\* having written the artifacts in written
ProcessFolder(st, exit_ok, written) ==
    /\ pc = "date"
    /\ ~args.upload_only
    /\ written \subseteq Requested_artifacts(st, args.force)
    /\ ~RunsCommand(st, args.force) => (written = {} /\ exit_ok)
    /\ run' = [NewIteration EXCEPT !.call =
                  LoopCall("process_folder", CurrentDate,
                           process_folder_end(st, args.force, exit_ok))]
    /\ IF UploadRequested(args)
       THEN /\ pc' = "upload_videos"
            /\ todo' = todo
            /\ on_disk' = ArtifactsOf(st) \cup written
       ELSE /\ NextDate
            /\ on_disk' = {}
    /\ UNCHANGED <<upload_state, state_file, clock, args, uploads_this_run, remote>>
    /\ UNCHANGED <<last, upVars>>

\* the loop body with --upload-only: no processing, the folder holds disk
SkipProcessing(disk) ==
    /\ pc = "date"
    /\ args.upload_only
    /\ on_disk' = disk
    /\ pc' = "upload_videos"
    /\ run' = NewIteration
    /\ UNCHANGED <<upload_state, state_file, clock, args, todo, uploads_this_run,
                   remote>>
    /\ UNCHANGED <<last, upVars>>

\* the days datetime.now() gives inside one artifact block of upload_videos:
\* in record_upload and, after it, in increment_upload_count
ClockRead(record, count) == [record |-> record, count |-> count]

\* the reads of datetime.now() of one upload_videos call entered on day t:
\* get_uploads_today reads day t, then each upload reads the clock in
\* record_upload and in increment_upload_count; the waits of upload_video lie
\* between them, so midnight may pass before any of the reads
ClockReads(t) ==
    {r \in [Kinds -> [record : t..MaxClock, count : t..MaxClock]] :
        /\ r["full_video"].record <= r["full_video"].count
        /\ r["full_video"].count <= r["highlights"].record
        /\ r["highlights"].record <= r["highlights"].count}

\* the reads of a call during which midnight does not pass
SameDay(t) == [k \in Kinds |-> ClockRead(t, t)]

\* the artifacts upload_video uploaded in the call that ends in context c
Uploaded(c) == {c.run.seq[i].kind : i \in {j \in DOMAIN c.run.seq : c.run.seq[j].outcome = "ok"}}

\* the clock is read only by the uploads that succeed: reads names a day for
\* the others too, the day of the read before
ReadsTaken(c, t, reads) ==
    /\ "full_video" \notin Uploaded(c) => reads["full_video"] = ClockRead(t, t)
    /\ "highlights" \notin Uploaded(c) =>
           reads["highlights"] = ClockRead(reads["full_video"].count,
                                           reads["full_video"].count)

\* a failed upload_video call that is counted and recorded like a successful one
Attempted_counts_failure(c, video_type, outcome) ==
    LET date == CurrentDate
        n == c.remote[<<date, video_type>>] + 1
        h == [c.run EXCEPT
                 !.calls = @ + 1, !.att = @ \cup {video_type},
                 !.seq = Append(@, [kind |-> video_type, outcome |-> outcome,
                                    today |-> get_uploads_today(c.state, c.now),
                                    day |-> c.reads[video_type].count]),
                 !.quota = IF outcome = "QuotaExceededError"
                           THEN @ \cup {video_type} ELSE @,
                 !.over = @ \/ (c.used >= args.max_uploads)]
    IN  [state |-> increment_upload_count(
                       record_upload(c.state, date, video_type,
                                     VideoId(date, video_type, n),
                                     c.reads[video_type].record),
                       c.reads[video_type].count),
         used |-> c.used + 1,
         now |-> c.reads[video_type].count,
         reads |-> c.reads,
         remote |-> IF outcome = "ok"
                    THEN [c.remote EXCEPT ![<<date, video_type>>] = n] ELSE c.remote,
         run |-> IF outcome = "ok" THEN [h EXCEPT !.ok = @ + 1] ELSE h]

\* upload_video was called for an artifact and ended with outcome: a call
\* that succeeds is followed by record_upload and increment_upload_count,
\* each with its own read of the clock, and by uploads_this_run += 1; the
\* history keeps uploads_today as the call found it (today) and the day on
\* which the upload was counted (day)
Attempted(c, video_type, outcome) ==
    LET date == CurrentDate
        n == c.remote[<<date, video_type>>] + 1
        h == [c.run EXCEPT
                 !.calls = @ + 1, !.att = @ \cup {video_type},
                 !.seq = Append(@, [kind |-> video_type, outcome |-> outcome,
                                    today |-> get_uploads_today(c.state, c.now),
                                    day |-> IF outcome = "ok"
                                            THEN c.reads[video_type].count
                                            ELSE c.now]),
                 !.quota = IF outcome = "QuotaExceededError"
                           THEN @ \cup {video_type} ELSE @,
                 !.over = @ \/ (c.used >= args.max_uploads)]
    IN  IF outcome = "ok"
        THEN [state |-> increment_upload_count(
                            record_upload(c.state, date, video_type,
                                          VideoId(date, video_type, n),
                                          c.reads[video_type].record),
                            c.reads[video_type].count),
              used |-> c.used + 1,
              now |-> c.reads[video_type].count,
              reads |-> c.reads,
              remote |-> [c.remote EXCEPT ![<<date, video_type>>] = n],
              run |-> [h EXCEPT !.ok = @ + 1]]
        ELSE [c EXCEPT !.run = h]

\* an artifact block that gives up once an upload_video call of the same
\* upload_videos call has failed
UploadArtifact_abort_after_failure(c, video_type, outcome) ==
    IF \E i \in DOMAIN c.run.seq : c.run.seq[i].outcome # "ok"
    THEN c
    ELSE IF ~ArtifactExists(on_disk, video_type)
    THEN c
    ELSE IF AlreadyUploaded(c.state, CurrentDate, video_type)
    THEN c
    ELSE IF QuotaReached(c.used, args.max_uploads)
    THEN [c EXCEPT !.run.refused = @ \cup {<<CurrentDate, video_type>>}]
    ELSE Attempted(c, video_type, outcome)

\* one artifact block of upload_videos, from the context c (the state dict,
\* uploads_this_run, the remote and the run's history) to the context after
\* it: the artifact is skipped when its file is missing or it is already
\* uploaded, refused by the quota guard, or upload_video is called
UploadArtifact(c, video_type, outcome) ==
    IF ~ArtifactExists(on_disk, video_type)
    THEN c
    ELSE IF AlreadyUploaded(c.state, CurrentDate, video_type)
    THEN c
    ELSE IF QuotaReached(c.used, args.max_uploads)
    THEN [c EXCEPT !.run.refused = @ \cup {<<CurrentDate, video_type>>}]
    ELSE Attempted(c, video_type, outcome)

\* the artifact blocks of upload_videos the other way round
ArtifactOrder_reversed == <<"highlights", "full_video">>

\* the artifact blocks of upload_videos in their order
ArtifactOrder == <<"full_video", "highlights">>

\* the daily warning never printed
UploadWarning_never(uploads_today) == FALSE

\* uploads_today >= UPLOAD_WARNING_THRESHOLD
UploadWarning(uploads_today) == uploads_today >= UPLOAD_WARNING_THRESHOLD

\* upload_videos(date, upload_state, ...): the context it returns with
upload_videos(c, outcome_full, outcome_highlights) ==
    LET rec0 == {k \in Kinds : is_video_uploaded(c.state, CurrentDate, k)}
        uploads_today == get_uploads_today(c.state, c.now)
        c0 == [c EXCEPT !.run.att = {}, !.run.seq = <<>>, !.run.rec0 = rec0,
                        !.run.used0 = c.used, !.run.warned = FALSE]
        c1 == [c0 EXCEPT !.run.warned = UploadWarning(uploads_today)]
        outcome == [k \in Kinds |-> IF k = "full_video" THEN outcome_full
                                    ELSE outcome_highlights]
    IN  IF QuotaReached(c.used, args.max_uploads)
        THEN [c0 EXCEPT !.run.refused =
                    @ \cup {<<CurrentDate, k>> : k \in on_disk \ rec0}]
        ELSE LET first == {UploadArtifact(x, ArtifactOrder[1], outcome[ArtifactOrder[1]]) :
                             x \in {c1}}
                 second == {UploadArtifact(x, ArtifactOrder[2], outcome[ArtifactOrder[2]]) :
                              x \in first}
             IN  CHOOSE r \in second : TRUE

\* the break of the date loop removed
LimitReached_never(used, max_uploads) == FALSE

\* main: if uploads_this_run >= max_uploads: break
LimitReached(used, max_uploads) == used >= max_uploads

\* the rest of the loop body: upload_videos is called, its writes reach the
\* state file, then the loop stops at the upload limit or goes on
UploadVideos(outcome_full, outcome_highlights, reads) ==
    /\ pc = "upload_videos"
    /\ \E c \in {upload_videos([state |-> upload_state, used |-> uploads_this_run,
                               now |-> clock, reads |-> reads,
                               remote |-> remote, run |-> run],
                              outcome_full, outcome_highlights)} :
           /\ upload_state' = c.state
           /\ clock' = c.now
           /\ ReadsTaken(c, clock, reads)
           /\ state_file' = IF c.run.ok > run.ok
                            THEN save_upload_state(c.state) ELSE state_file
           /\ uploads_this_run' = c.used
           /\ remote' = c.remote
           /\ run' = [c.run EXCEPT !.call =
                         LoopCall("upload_videos", CurrentDate, "done")]
           /\ "full_video" \notin c.run.att => outcome_full = "ok"
           /\ "highlights" \notin c.run.att => outcome_highlights = "ok"
           /\ IF LimitReached(c.used, args.max_uploads)
              THEN /\ pc' = "summary"
                   /\ todo' = Tail(todo)
              ELSE NextDate
    /\ UNCHANGED <<args, on_disk>>
    /\ UNCHANGED <<last, upVars>>

\* the summary is printed and main() returns: the process is gone
Summary ==
    /\ pc = "summary"
    /\ pc' = "idle"
    /\ args' = NoArgs
    /\ todo' = <<>>
    /\ uploads_this_run' = 0
    /\ run' = NoRun
    /\ upload_state' = NoState
    /\ on_disk' = {}
    /\ UNCHANGED <<state_file, clock, remote>>
    /\ UNCHANGED <<last, upVars>>

\* midnight passes
Midnight ==
    /\ clock < MaxClock
    /\ clock' = clock + 1
    /\ UNCHANGED <<upload_state, state_file>>
    /\ UNCHANGED mainVars
    /\ UNCHANGED <<last, upVars>>

Next ==
    \/ \E a \in ArgSets, dates \in DateLists : MainDryRun(a, dates)
    \/ DryRunReturn
    \/ \E a \in ArgSets, dates \in DateLists : MainStart(a, dates)
    \/ \E st \in FolderStatuses, exit_ok \in BOOLEAN, written \in SUBSET Kinds :
           ProcessFolder(st, exit_ok, written)
    \/ \E disk \in SUBSET Kinds : SkipProcessing(disk)
    \/ \E o1 \in UploadOutcomes, o2 \in UploadOutcomes, reads \in {SameDay(clock)} :
           UploadVideos(o1, o2, reads)
    \/ Summary

Spec == Init /\ [][Next]_vars

\* the runs that only upload (--upload-only), one or two dates each, with the
\* default limit or a limit of 1
UploadOnlyArgs ==
    {a \in ArgSets : /\ a.upload_only /\ ~a.upload /\ ~a.dry_run /\ ~a.force
                     /\ a.max_uploads \in {1, MAX_UPLOADS_PER_RUN}}

UploadOnlyDates ==
    {<<"2025-01-13">>, <<"2025-01-20">>, <<"2025-01-13", "2025-01-13">>,
     <<"2025-01-13", "2025-01-20">>}

\* upload-only runs one after the other, over several days
NextDays ==
    \/ \E a \in UploadOnlyArgs, dates \in UploadOnlyDates : MainStart(a, dates)
    \/ \E disk \in SUBSET Kinds : SkipProcessing(disk)
    \/ \E o1 \in UploadOutcomes, o2 \in UploadOutcomes, reads \in ClockReads(clock) :
           UploadVideos(o1, o2, reads)
    \/ Summary
    \/ Midnight

SpecDays == Init /\ [][NextDays]_vars

\* one pass through the body of the date loop, no midnight passing in it
LoopStep ==
    \/ \E st \in FolderStatuses, exit_ok \in BOOLEAN, written \in SUBSET Kinds :
           ProcessFolder(st, exit_ok, written)
    \/ \E disk \in SUBSET Kinds : SkipProcessing(disk)
    \/ \E o1 \in UploadOutcomes, o2 \in UploadOutcomes, reads \in {SameDay(clock)} :
           UploadVideos(o1, o2, reads)

\* the runs that process and upload (--upload), with the default limit or a
\* limit of 1
ProcessAndUploadArgs ==
    {a \in ArgSets : /\ a.upload /\ ~a.upload_only /\ ~a.dry_run /\ ~a.force
                     /\ a.max_uploads \in {1, MAX_UPLOADS_PER_RUN}}

\* runs that upload, with or without processing, one after the other; a run
\* that has started
\* goes on: process_folder and upload_videos return, the summary is printed
NextRuns ==
    \/ \E a \in ProcessAndUploadArgs \cup UploadOnlyArgs, dates \in UploadOnlyDates :
           MainStart(a, dates)
    \/ LoopStep
    \/ Summary

SpecRuns == Init /\ [][NextRuns]_vars /\ WF_vars(LoopStep)

----------------------------------------------------------------------------
(* SpecResults: runs of main() seen through what they report: the result     *)
(* dict process_folder returns for each date, the upload_video calls that    *)
(* raise, and the counts the summary prints.                                 *)

\* the result dict of process_folder: the action of each artifact
Result(full_video, highlights) == [full_video |-> full_video, highlights |-> highlights]

\* process_folder(date, force) on a folder in status st; when it runs the
\* command, exit_ok tells whether it exited with 0 and disk holds the
\* artifacts that exist afterwards
process_folder(st, force, exit_ok, disk) ==
    IF ~st.exists \/ st.mp4_count = 0
    THEN Result("error", "error")
    ELSE IF ~RunsCommand(st, force)
    THEN Result("skipped", "skipped")
    ELSE IF ~exit_ok
    THEN Result("error", "error")
    ELSE Result(IF need_full_video(st, force) /\ "full_video" \in disk
                THEN "created" ELSE "skipped",
                IF need_highlights(st, force) /\ "highlights" \in disk
                THEN "created" ELSE "skipped")

\* sum(1 for r in results if r["full_video"]["action"] == "created")
created_full(results) ==
    Cardinality({i \in DOMAIN results : results[i].full_video = "created"})

\* sum(1 for r in results if r["highlights"]["action"] == "created")
created_highlights(results) ==
    Cardinality({i \in DOMAIN results : results[i].highlights = "created"})

\* sum(1 for r in results if either action == "error")
errors(results) ==
    Cardinality({i \in DOMAIN results : \/ results[i].full_video = "error"
                                          \/ results[i].highlights = "error"})

\* what the summary prints: the three counts unless --upload-only, which
\* prints none
SummaryCounts(results, upload_only) ==
    IF upload_only
    THEN [counts |-> FALSE, created_full |-> 0, created_highlights |-> 0, errors |-> 0]
    ELSE [counts |-> TRUE,
          created_full |-> created_full(results),
          created_highlights |-> created_highlights(results),
          errors |-> errors(results)]

NotPrinted == [counts |-> FALSE, created_full |-> 0, created_highlights |-> 0, errors |-> 0]

\* what a run has to report: the results list of main, whether the command
\* was run for the latest date, whether it exited with 0 and the status of
\* the folder, the number of upload_video calls that raised, the counts
\* printed
Report(results, ran, exit_ok, st, upload_failures, printed) ==
    [results |-> results, ran |-> ran, exit_ok |-> exit_ok, st |-> st,
     upload_failures |-> upload_failures, printed |-> printed]

NoStatus == [exists |-> FALSE, has_splits_csv |-> FALSE, has_full_video |-> FALSE,
             has_highlights |-> FALSE, mp4_count |-> 0]

\* the runs of SpecResults: no dry run, the default upload limit or 1
ResultsArgs ==
    {a \in ArgSets : ~a.dry_run /\ a.max_uploads \in {1, MAX_UPLOADS_PER_RUN}}

\* main() up to the date loop
ResultsStart(a, dates) ==
    /\ pc = "idle"
    /\ args' = LoopArgs(a)
    /\ todo' = dates
    /\ upload_state' = load_upload_state(state_file)
    /\ uploads_this_run' = 0
    /\ pc' = "date"
    /\ run' = Report(<<>>, FALSE, TRUE, NoStatus, 0, NotPrinted)
    /\ UNCHANGED <<state_file, clock, on_disk, remote>>
    /\ UNCHANGED <<last, upVars>>

\* result = process_folder(date, force=args.force); results.append(result)
ResultsProcess(st, exit_ok, written) ==
    /\ pc = "date"
    /\ ~args.upload_only
    /\ written \subseteq Requested_artifacts(st, args.force)
    /\ ~RunsCommand(st, args.force) => (written = {} /\ exit_ok)
    /\ run' = [run EXCEPT
                  !.results = Append(@, process_folder(st, args.force, exit_ok,
                                                       ArtifactsOf(st) \cup written)),
                  !.ran = RunsCommand(st, args.force),
                  !.exit_ok = exit_ok,
                  !.st = st]
    /\ IF UploadRequested(args)
       THEN /\ pc' = "upload_videos"
            /\ todo' = todo
            /\ on_disk' = ArtifactsOf(st) \cup written
       ELSE /\ NextDate
            /\ on_disk' = {}
    /\ UNCHANGED <<upload_state, state_file, clock, args, uploads_this_run, remote>>
    /\ UNCHANGED <<last, upVars>>

\* --upload-only: process_folder is not called, nothing is appended
ResultsSkip(disk) ==
    /\ pc = "date"
    /\ args.upload_only
    /\ on_disk' = disk
    /\ pc' = "upload_videos"
    /\ UNCHANGED <<upload_state, state_file, clock, args, todo, uploads_this_run,
                   run, remote>>
    /\ UNCHANGED <<last, upVars>>

\* _, uploads_this_run = upload_videos(...): the results of upload_videos are
\* dropped, its exceptions were printed inside it
ResultsUpload(outcome_full, outcome_highlights, reads) ==
    /\ pc = "upload_videos"
    /\ \E c \in {upload_videos(
                    [state |-> upload_state, used |-> uploads_this_run,
                     now |-> clock, reads |-> reads,
                     remote |-> remote,
                     run |-> RunHistory(NoCall, 0, 0, FALSE, {}, {}, {}, <<>>, {}, 0, FALSE)],
                    outcome_full, outcome_highlights)} :
           /\ upload_state' = c.state
           /\ state_file' = IF c.run.ok > 0
                            THEN save_upload_state(c.state) ELSE state_file
           /\ uploads_this_run' = c.used
           /\ remote' = c.remote
           /\ run' = [run EXCEPT !.upload_failures = @ + (c.run.calls - c.run.ok)]
           /\ clock' = c.now
           /\ ReadsTaken(c, clock, reads)
           /\ "full_video" \notin c.run.att => outcome_full = "ok"
           /\ "highlights" \notin c.run.att => outcome_highlights = "ok"
           /\ IF LimitReached(c.used, args.max_uploads)
              THEN /\ pc' = "summary"
                   /\ todo' = Tail(todo)
              ELSE NextDate
    /\ UNCHANGED <<args, on_disk>>
    /\ UNCHANGED <<last, upVars>>

\* the summary is printed
ResultsSummary ==
    /\ pc = "summary"
    /\ pc' = "printed"
    /\ run' = [run EXCEPT !.printed = SummaryCounts(run.results, args.upload_only)]
    /\ UNCHANGED <<upload_state, state_file, clock, args, todo, uploads_this_run,
                   on_disk, remote>>
    /\ UNCHANGED <<last, upVars>>

\* main() returns
ResultsReturn ==
    /\ pc = "printed"
    /\ pc' = "idle"
    /\ args' = NoArgs
    /\ todo' = <<>>
    /\ uploads_this_run' = 0
    /\ run' = NoRun
    /\ upload_state' = NoState
    /\ on_disk' = {}
    /\ UNCHANGED <<state_file, clock, remote>>
    /\ UNCHANGED <<last, upVars>>

NextResults ==
    \/ \E a \in ResultsArgs, dates \in UploadOnlyDates : ResultsStart(a, dates)
    \/ \E st \in FolderStatuses, exit_ok \in BOOLEAN, written \in SUBSET Kinds :
           ResultsProcess(st, exit_ok, written)
    \/ \E disk \in SUBSET Kinds : ResultsSkip(disk)
    \/ \E o1 \in UploadOutcomes, o2 \in UploadOutcomes, reads \in {SameDay(clock)} :
           ResultsUpload(o1, o2, reads)
    \/ ResultsSummary
    \/ ResultsReturn

SpecResults == Init /\ [][NextResults]_vars

----------------------------------------------------------------------------
(* SpecClip: the subclip loop of src/src/main.py, one timestamp of the CSV   *)
(* after another. Times are counted in half seconds, so that 3661.5 s is     *)
(* the number 7323; a timestamp is a Python float and can be nan or          *)
(* infinite.                                                                 *)

\* a Python float: a finite number (of half seconds), nan, inf or -inf
Num(v) == [kind |-> "num", v |-> v]
NaN == [kind |-> "nan", v |-> 0]
Inf == [kind |-> "inf", v |-> 0]
NegInf == [kind |-> "-inf", v |-> 0]

\* a > b on floats: False whenever a side is nan
gt(a, b) ==
    CASE a.kind = "nan" \/ b.kind = "nan" -> FALSE
      [] a.kind = "inf" /\ b.kind # "nan" -> b.kind # "inf"
      [] a.kind = "-inf" /\ b.kind # "nan" -> FALSE
      [] a.kind = "num" /\ b.kind # "nan" ->
            b.kind = "-inf" \/ (b.kind = "num" /\ a.v > b.v)

\* a + n for an integer n: nan, inf and -inf stay what they are
plus(a, n) == IF a.kind = "num" THEN Num(a.v + n) ELSE a

\* the timestamps parse_time_to_seconds can hand over: float() accepts a
\* sign, "nan" and "inf", so a timestamp can be negative, nan, inf or -inf
Timestamps ==
    {Num(v) : v \in ((0 - 2 * MaxTime) .. (2 * MaxTime)) \cup {7323}}
        \cup {NaN, Inf, NegInf}

\* full_clip.duration
Durations == (0 .. (2 * MaxTime)) \cup {8000}

\* before_goal_seconds and after_goal_seconds, int() of an environment
\* variable, which accepts a sign: -4, 0, 4 or 8 seconds
Windows == {0 - 8, 0, 8, 16}

\* Python's max(a, b) and min(a, b): the first argument unless the second
\* is greater (smaller)
max(a, b) == IF gt(b, a) THEN b ELSE a
min(a, b) == IF gt(a, b) THEN b ELSE a

\* the skip of a timestamp beyond the clip removed
exceeds_duration_never(t, duration) == FALSE

\* if t > full_clip.duration: continue
exceeds_duration(t, duration) == gt(t, Num(duration))

\* start = max(t - before_goal_seconds, 0)
subclip_start(t, before_goal) == max(plus(t, 0 - before_goal), Num(0))

\* end = min(t + after_goal_seconds, full_clip.duration)
subclip_end(t, after_goal, duration) == min(plus(t, after_goal), Num(duration))

\* one pass of the loop: the inputs, whether a subclip was made, its bounds
Subclip(t, duration, before_goal, after_goal, made, start, end) ==
    [t |-> t, duration |-> duration, before_goal |-> before_goal,
     after_goal |-> after_goal, made |-> made, start |-> start, end |-> end]

\* for t in cumulative_times: one timestamp is handled
HandleTimestamp(t, duration, before_goal, after_goal) ==
    /\ pc = "idle"
    /\ pc' = "timestamp"
    /\ run' = IF exceeds_duration(t, duration)
              THEN Subclip(t, duration, before_goal, after_goal, FALSE, Num(0), Num(0))
              ELSE Subclip(t, duration, before_goal, after_goal, TRUE,
                           subclip_start(t, before_goal),
                           subclip_end(t, after_goal, duration))
    /\ UNCHANGED <<upload_state, state_file, clock, args, todo, uploads_this_run,
                   on_disk, remote>>
    /\ UNCHANGED <<last, upVars>>

\* the loop goes on to the next timestamp
NextTimestamp ==
    /\ pc = "timestamp"
    /\ pc' = "idle"
    /\ run' = NoRun
    /\ UNCHANGED <<upload_state, state_file, clock, args, todo, uploads_this_run,
                   on_disk, remote>>
    /\ UNCHANGED <<last, upVars>>

NextClip ==
    \/ \E t \in Timestamps, duration \in Durations, b \in Windows, a \in Windows :
           HandleTimestamp(t, duration, b, a)
    \/ NextTimestamp

SpecClip == Init /\ [][NextClip]_vars

----------------------------------------------------------------------------
(* SpecTwo: two batch_process.py processes run against the same state file.  *)
(* Each holds its own state dict, loaded once at the start of its run; every *)
(* save truncates the file when it opens it and writes the whole dict of the *)
(* process that saves when it closes it. A step is one access to the file or *)
(* one upload_video call.                                                    *)

Procs == {1, 2}

\* the date folder both processes are given, with both artifacts on disk
TwoDate == "2025-01-13"

\* the microsecond of the time record_upload reads: a whole second, or not
Microseconds == {0, 123456}

\* one process: where it is (idle: not running; loop: between two artifact
\* blocks; returned: upload_video has returned; recording: record_upload has
\* opened the file; recorded: record_upload has saved; incrementing:
\* increment_upload_count has opened the file), its state dict, its
\* uploads_this_run, the artifact just uploaded
Proc(at, state, used, job) == [at |-> at, state |-> state, used |-> used, job |-> job]

NoProc == Proc("idle", NoState, 0, {})

\* what has happened: the processes, whether a process was ever started while
\* another was running, the entries record_upload has saved, the number of
\* increment_upload_count calls that have saved, whether a load has raised
\* JSONDecodeError
TwoHistory(procs, overlap, recorded, counted, raised) ==
    [procs |-> procs, overlap |-> overlap, recorded |-> recorded, counted |-> counted,
     raised |-> raised]

InitTwo ==
    /\ upload_state = NoState
    /\ state_file = NoFile
    /\ clock = 0
    /\ last = Call("start", None, None, None, None, None, 0, NoState)
    /\ InitUploader
    /\ pc = "idle"
    /\ args = NoArgs
    /\ todo = <<>>
    /\ uploads_this_run = 0
    /\ on_disk = {}
    /\ remote = [a \in Dates \X Kinds |-> 0]
    /\ run = TwoHistory([p \in Procs |-> NoProc], FALSE, {}, 0, FALSE)

TwoUnchanged ==
    /\ UNCHANGED <<upload_state, clock, pc, args, todo, uploads_this_run, on_disk>>
    /\ UNCHANGED <<last, upVars>>

\* main() of process p up to the date loop: upload_state = load_upload_state().
\* On a file another process has opened and not yet written, or has left
\* garbled, json.load raises JSONDecodeError and the process ends.
TwoLoad(p) ==
    /\ run.procs[p].at = "idle"
    /\ IF state_file # NoFile /\ json_load_raises(state_file)
       THEN run' = [run EXCEPT
                       !.raised = TRUE,
                       !.overlap = @ \/ \E q \in Procs \ {p} : run.procs[q].at # "idle"]
       ELSE run' = [run EXCEPT
                       !.procs[p] = Proc("loop", load_upload_state(state_file), 0, {}),
                       !.overlap = @ \/ \E q \in Procs \ {p} : run.procs[q].at # "idle"]
    /\ UNCHANGED <<state_file, remote>>
    /\ TwoUnchanged

\* an artifact block of upload_videos in process p, up to the return of
\* upload_video: the artifact has no entry in the dict of p and the quota
\* guard lets it through. (A skipped artifact and a call that raises change
\* nothing.)
TwoUploadVideo(p, video_type) ==
    /\ run.procs[p].at = "loop"
    /\ ~AlreadyUploaded(run.procs[p].state, TwoDate, video_type)
    /\ ~QuotaReached(run.procs[p].used, MAX_UPLOADS_PER_RUN)
    /\ remote[<<TwoDate, "full_video">>] + remote[<<TwoDate, "highlights">>] < MaxDone
    /\ remote' = [remote EXCEPT ![<<TwoDate, video_type>>] = @ + 1]
    /\ run' = [run EXCEPT !.procs[p].at = "returned",
                          !.procs[p].job =
                              {[key |-> <<TwoDate, video_type>>,
                                id |-> VideoId(TwoDate, video_type,
                                               remote'[<<TwoDate, video_type>>])]}]
    /\ UNCHANGED state_file
    /\ TwoUnchanged

\* record_upload in process p up to open(STATE_FILE, "w") of
\* save_upload_state: the entry is put into the dict of p, with uploaded_at
\* as isoformat() writes the time read, and the file is truncated
TwoRecordUploadOpens(p, microsecond) ==
    /\ run.procs[p].at = "returned"
    /\ \E j \in run.procs[p].job :
          run' = [run EXCEPT !.procs[p].at = "recording",
                             !.procs[p].state =
                                 [record_upload(run.procs[p].state, j.key[1], j.key[2],
                                                j.id, clock)
                                     EXCEPT ![j.key[1]][j.key[2]].uploaded_at =
                                                isoformat_at(clock, microsecond)]]
    /\ state_file' = Truncated
    /\ UNCHANGED remote
    /\ TwoUnchanged

\* json.dump and the close of the file in record_upload of process p
TwoRecordUploadDumps(p) ==
    /\ run.procs[p].at = "recording"
    /\ state_file' = dump_and_close(run.procs[p].state, state_file)
    /\ \E j \in run.procs[p].job :
          run' = [run EXCEPT !.procs[p].at = "recorded",
                             !.recorded = @ \cup {j.key}]
    /\ UNCHANGED remote
    /\ TwoUnchanged

\* increment_upload_count in process p up to open(STATE_FILE, "w") of
\* save_upload_state: the counters of the dict of p are set and the file is
\* truncated
TwoIncrementOpens(p) ==
    /\ run.procs[p].at = "recorded"
    /\ run' = [run EXCEPT !.procs[p].at = "incrementing",
                          !.procs[p].state =
                              increment_upload_count(run.procs[p].state, clock)]
    /\ state_file' = Truncated
    /\ UNCHANGED remote
    /\ TwoUnchanged

\* json.dump and the close of the file in increment_upload_count of process
\* p, then uploads_this_run += 1
TwoIncrementDumps(p) ==
    /\ run.procs[p].at = "incrementing"
    /\ state_file' = dump_and_close(run.procs[p].state, state_file)
    /\ run' = [run EXCEPT !.procs[p].at = "loop",
                          !.procs[p].used = @ + 1,
                          !.procs[p].job = {},
                          !.counted = @ + 1]
    /\ UNCHANGED remote
    /\ TwoUnchanged

\* main() of process p returns
TwoReturn(p) ==
    /\ run.procs[p].at = "loop"
    /\ run' = [run EXCEPT !.procs[p] = NoProc]
    /\ UNCHANGED <<state_file, remote>>
    /\ TwoUnchanged

NextTwo ==
    \/ \E p \in Procs : TwoLoad(p)
    \/ \E p \in Procs, k \in Kinds : TwoUploadVideo(p, k)
    \/ \E p \in Procs, us \in Microseconds : TwoRecordUploadOpens(p, us)
    \/ \E p \in Procs : TwoRecordUploadDumps(p)
    \/ \E p \in Procs : TwoIncrementOpens(p)
    \/ \E p \in Procs : TwoIncrementDumps(p)
    \/ \E p \in Procs : TwoReturn(p)

SpecTwo == InitTwo /\ [][NextTwo]_vars

----------------------------------------------------------------------------
(* SpecClock: crash-free runs of main(), one after the other, followed from  *)
(* one datetime.now() to the next: record_upload and increment_upload_count  *)
(* each read the clock, and midnight can pass between any two statements.    *)

\* one successful upload: its key, the day record_upload read, the day
\* increment_upload_count read
Counted(key, recorded, counted) == [key |-> key, recorded |-> recorded, counted |-> counted]

\* what the runs have done: the upload whose upload_video call has returned
\* and whose block is not finished (its key and the id the call returned;
\* with the day record_upload read once it has run), the uploads that were
\* recorded and counted
ClockHistory(job, log) == [job |-> job, log |-> log]

InitClock ==
    /\ upload_state = NoState
    /\ state_file = NoFile
    /\ clock = 0
    /\ last = Call("start", None, None, None, None, None, 0, NoState)
    /\ InitUploader
    /\ pc = "idle"
    /\ args = NoArgs
    /\ todo = <<>>
    /\ uploads_this_run = 0
    /\ on_disk = {}
    /\ remote = [a \in Dates \X Kinds |-> 0]
    /\ run = ClockHistory({}, {})

\* main() up to the date loop
ClockLoad ==
    /\ pc = "idle"
    /\ pc' = "loop"
    /\ upload_state' = load_upload_state(state_file)
    /\ uploads_this_run' = 0
    /\ UNCHANGED <<state_file, clock, args, todo, on_disk, run, remote>>
    /\ UNCHANGED <<last, upVars>>

\* an artifact block up to the return of upload_video: the artifact has no
\* entry and the quota guard lets it through. (A skipped artifact and a call
\* that raises change nothing.)
ClockUploadVideo(date, video_type) ==
    /\ pc = "loop"
    /\ ~AlreadyUploaded(upload_state, date, video_type)
    /\ ~QuotaReached(uploads_this_run, MAX_UPLOADS_PER_RUN)
    /\ pc' = "returned"
    /\ remote' = [remote EXCEPT ![<<date, video_type>>] = @ + 1]
    /\ run' = [run EXCEPT !.job = {[key |-> <<date, video_type>>,
                                     id |-> VideoId(date, video_type,
                                                    remote'[<<date, video_type>>])]}]
    /\ UNCHANGED <<upload_state, state_file, clock, args, todo, uploads_this_run,
                   on_disk>>
    /\ UNCHANGED <<last, upVars>>

\* record_upload: uploaded_at is datetime.now().isoformat(); the dict is saved
ClockRecordUpload ==
    /\ pc = "returned"
    /\ pc' = "recorded"
    /\ \E j \in run.job :
          /\ upload_state' = record_upload(upload_state, j.key[1], j.key[2],
                                           j.id, clock)
          /\ run' = [run EXCEPT !.job = {[key |-> j.key, id |-> j.id,
                                          recorded |-> clock]}]
    /\ state_file' = save_upload_state(upload_state')
    /\ UNCHANGED <<clock, args, todo, uploads_this_run, on_disk, remote>>
    /\ UNCHANGED <<last, upVars>>

\* increment_upload_count: today is datetime.now().strftime("%Y-%m-%d"); the
\* dict is saved; then uploads_this_run += 1
ClockIncrement ==
    /\ pc = "recorded"
    /\ pc' = "loop"
    /\ upload_state' = increment_upload_count(upload_state, clock)
    /\ state_file' = save_upload_state(upload_state')
    /\ uploads_this_run' = uploads_this_run + 1
    /\ run' = [run EXCEPT
                  !.job = {},
                  !.log = @ \cup {Counted(j.key, j.recorded, clock) : j \in run.job}]
    /\ UNCHANGED <<clock, args, todo, on_disk, remote>>
    /\ UNCHANGED <<last, upVars>>

\* the date loop ends, the summary is printed, main() returns
ClockReturn ==
    /\ pc = "loop"
    /\ pc' = "idle"
    /\ upload_state' = NoState
    /\ uploads_this_run' = 0
    /\ UNCHANGED <<state_file, clock, args, todo, on_disk, run, remote>>
    /\ UNCHANGED <<last, upVars>>

NextClock ==
    \/ ClockLoad
    \/ \E d \in Dates, k \in Kinds : ClockUploadVideo(d, k)
    \/ ClockRecordUpload
    \/ ClockIncrement
    \/ ClockReturn
    \/ Midnight

SpecClock == InitClock /\ [][NextClock]_vars

----------------------------------------------------------------------------
(* SpecCli: the runs of SpecClock with the uploader CLI                      *)
(* (src/src/youtube/cli.py) used beside them: a second process that acts on  *)
(* the same remote, at any moment, also while upload_videos waits in         *)
(* upload_video or stands between two artifact blocks.                       *)

\* the file the uploader CLI is pointed at: the full video of a date folder
CliFiles == {<<"2025-01-13", "full_video">>}

\* python -m src.youtube.cli --file ... --title ...: main() of
\* src/src/youtube/cli.py hands the file to upload_video and prints the
\* result or the error; it neither reads nor writes the state file, so the
\* file is uploaded whether or not it has an entry, and gets none
CliUpload(file, outcome) ==
    /\ remote[file] < MaxRemote
    /\ remote' = IF outcome = "ok" THEN [remote EXCEPT ![file] = @ + 1] ELSE remote
    /\ UNCHANGED <<upload_state, state_file, clock>>
    /\ UNCHANGED <<pc, args, todo, uploads_this_run, on_disk, run>>
    /\ UNCHANGED <<last, upVars>>

NextCli ==
    \/ NextClock
    \/ \E file \in CliFiles, outcome \in UploadOutcomes : CliUpload(file, outcome)

SpecCli == InitClock /\ [][NextCli]_vars

----------------------------------------------------------------------------
(* SpecBackoff: the retries of _resumable_upload with the length of their    *)
(* sleeps. random.random() is a multiple of 1 / Resolution in [0, 1), and a  *)
(* sleep is counted in units of 1 / Resolution seconds.                      *)

\* the values of random.random(), as numerators over Resolution
RandomValues == 0 .. (Resolution - 1)

\* a sleep computed with the exponent one too high
sleep_seconds_doubled(u, r) == u * 2^(r + 1)

\* sleep_seconds = random.random() * (2**retry)
sleep_seconds(u, r) == u * 2^r

\* the latest backoff: the value of retry it was computed from, the random
\* value drawn, the sleep; and the longest sleep of the call so far
Backoff(n, u, sleep, longest) == [n |-> n, u |-> u, sleep |-> sleep, longest |-> longest]

NoBackoff == Backoff(0, 0, 0, 0)

InitBackoff ==
    /\ InitUploader
    /\ upload_state = NoState
    /\ state_file = NoFile
    /\ clock = 0
    /\ last = Call("start", None, None, None, None, None, 0, NoState)
    /\ pc = "idle"
    /\ args = NoArgs
    /\ todo = <<>>
    /\ uploads_this_run = 0
    /\ on_disk = {}
    /\ remote = [a \in Dates \X Kinds |-> 0]
    /\ run = NoBackoff

BackoffUnchanged ==
    /\ UNCHANGED <<upload_state, state_file, clock, last, uph>>
    /\ UNCHANGED <<pc, args, todo, uploads_this_run, on_disk, remote>>

\* _resumable_upload is entered: response = None, error = None, retry = 0
BackoffStart ==
    /\ upc # "loop"
    /\ upc' = "loop"
    /\ response' = None
    /\ error' = None
    /\ retry' = 0
    /\ run' = NoBackoff
    /\ BackoffUnchanged

\* next_chunk fails with a retriable error, an HttpError with a retriable
\* status or a transport error (status 0): error is set, retry += 1, then
\* either UploadFailedError with the error text kept, or a sleep of
\* random.random() * 2**retry seconds and error = None
BackoffRetry(u, status) ==
    /\ upc = "loop"
    /\ retry' = retry + 1
    /\ IF RetriesExhausted(retry')
       THEN /\ upc' = "raised"
            /\ error' = (IF status = 0 THEN "Retriable error"
                         ELSE RetriableHttpError(status))
            /\ run' = run
       ELSE /\ upc' = upc
            /\ error' = None
            /\ \E s \in {sleep_seconds(u, retry')} :
                  run' = Backoff(retry', u, s,
                                 IF s > run.longest THEN s ELSE run.longest)
    /\ UNCHANGED response
    /\ BackoffUnchanged

\* next_chunk returns the terminal response: the loop ends and the response
\* is returned, without another sleep
BackoffReturn(video_id) ==
    /\ upc = "loop"
    /\ upc' = "returned"
    /\ response' = [id |-> video_id]
    /\ UNCHANGED <<error, retry, run>>
    /\ BackoffUnchanged

\* next_chunk raises an HttpError that is not retried, the quota error or a
\* status outside RETRIABLE_STATUS_CODES: the call raises without a sleep
BackoffRaise(status, quota_in_text) ==
    /\ upc = "loop"
    /\ IsQuotaExceeded(status, quota_in_text) \/ ~IsRetriableStatus(status)
    /\ upc' = "raised"
    /\ UNCHANGED <<response, error, retry, run>>
    /\ BackoffUnchanged

NextBackoff ==
    \/ BackoffStart
    \/ \E u \in RandomValues, status \in RETRIABLE_STATUS_CODES \cup {0} :
          BackoffRetry(u, status)
    \/ \E v \in VideoIds : BackoffReturn(v)
    \/ \E st \in HttpStatuses, q \in BOOLEAN : BackoffRaise(st, q)

SpecBackoff == InitBackoff /\ [][NextBackoff]_vars

----------------------------------------------------------------------------
(* SpecWarn: the upload-only runs of SpecDays, started on a day on which     *)
(* earlier runs have already uploaded the videos of three earlier dates.     *)

\* the artifacts earlier runs of the day have uploaded, in their order
PriorArtifacts ==
    << <<"2024-12-23", "full_video">>, <<"2024-12-23", "highlights">>,
       <<"2024-12-30", "full_video">>, <<"2024-12-30", "highlights">>,
       <<"2025-01-06", "full_video">>, <<"2025-01-06", "highlights">> >>

\* the state after the first n of them: record_upload, increment_upload_count
RECURSIVE PriorState(_)
PriorState(n) ==
    IF n = 0 THEN FreshState
    ELSE increment_upload_count(
             record_upload(PriorState(n - 1), PriorArtifacts[n][1], PriorArtifacts[n][2],
                           VideoId(PriorArtifacts[n][1], PriorArtifacts[n][2], 1), 0),
             0)

\* how many uploads the day has seen when the runs begin: from the default
\* limit of one run up to the warning threshold
PriorCounts == MAX_UPLOADS_PER_RUN .. UPLOAD_WARNING_THRESHOLD

InitWarn ==
    /\ upload_state = NoState
    /\ \E n \in PriorCounts : state_file = save_upload_state(PriorState(n))
    /\ clock = 0
    /\ last = Call("start", None, None, None, None, None, 0, NoState)
    /\ InitUploader
    /\ InitMain

SpecWarn == InitWarn /\ [][NextDays]_vars

----------------------------------------------------------------------------
(* SpecRetry: the upload-only runs of SpecDays, also with --max-uploads 0    *)
(* and with the dates listed in either order, on folders that hold the       *)
(* highlights, with or without the full video. The history of a run carries  *)
(* two more fields across the runs: the artifacts whose upload failed or was *)
(* refused and that have not been uploaded since (pending), and those of     *)
(* them left from earlier runs whose date the current run lists and that it  *)
(* has neither attempted nor found missing in the folder (owed).             *)

RetryArgs ==
    {a \in ArgSets : /\ a.upload_only /\ ~a.upload /\ ~a.dry_run /\ ~a.force
                     /\ a.max_uploads \in {0, 1, MAX_UPLOADS_PER_RUN}}

RetryDates == UploadOnlyDates \cup {<<"2025-01-20", "2025-01-13">>}

\* what a date folder holds when it is visited: both artifacts, or the
\* highlights without the full video (SAVE_FULL_VIDEO off, or the file
\* removed since)
RetryFolders == {Kinds, {"highlights"}}

\* the history of a run that has made no call yet, with the two fields
RetryHistory(pending, owed) ==
    [call |-> NoCall, calls |-> 0, ok |-> 0, over |-> FALSE, refused |-> {},
     quota |-> {}, att |-> {}, seq |-> <<>>, rec0 |-> {}, used0 |-> 0,
     warned |-> FALSE, pending |-> pending, owed |-> owed]

\* the history h once its latest upload_videos call, made on a folder that
\* held disk, is taken into the two fields: the artifacts of the date that
\* failed or were refused are pending, those uploaded are not; the artifacts
\* attempted, and those missing in the folder, are no longer owed
Settled(h, disk) ==
    IF h.call.name # "upload_videos" THEN h
    ELSE LET d == h.call.date
             failed == {<<d, h.seq[i].kind>> :
                           i \in {j \in DOMAIN h.seq : h.seq[j].outcome # "ok"}}
             done == {<<d, h.seq[i].kind>> :
                         i \in {j \in DOMAIN h.seq : h.seq[j].outcome = "ok"}}
             refused == {x \in h.refused : x[1] = d}
         IN  [h EXCEPT
                 !.pending = (@ \cup failed \cup refused) \ done,
                 !.owed = @ \ {<<d, k>> : k \in h.att \cup (Kinds \ disk)}]

InitRetry ==
    /\ upload_state = NoState
    /\ state_file = NoFile
    /\ clock = 0
    /\ last = Call("start", None, None, None, None, None, 0, NoState)
    /\ InitUploader
    /\ pc = "idle"
    /\ args = NoArgs
    /\ todo = <<>>
    /\ uploads_this_run = 0
    /\ on_disk = {}
    /\ run = RetryHistory({}, {})
    /\ remote = [a \in Dates \X Kinds |-> 0]

\* main() up to the date loop: the state is loaded, uploads_this_run = 0
RetryStart(a, dates) ==
    /\ pc = "idle"
    /\ ~IsDryRun(a)
    /\ args' = LoopArgs(a)
    /\ todo' = dates
    /\ upload_state' = load_upload_state(state_file)
    /\ uploads_this_run' = 0
    /\ pc' = "date"
    /\ run' = RetryHistory(run.pending,
                           {x \in run.pending : \E i \in DOMAIN dates : dates[i] = x[1]})
    /\ UNCHANGED <<state_file, clock, on_disk, remote>>
    /\ UNCHANGED <<last, upVars>>

\* the loop body with --upload-only: no processing, the folder holds disk
RetrySkipProcessing(disk) ==
    /\ pc = "date"
    /\ args.upload_only
    /\ on_disk' = disk
    /\ pc' = "upload_videos"
    /\ run' = [Settled(run, on_disk) EXCEPT
                  !.call = NoCall, !.att = {}, !.seq = <<>>, !.rec0 = {}, !.used0 = 0,
                  !.warned = FALSE]
    /\ UNCHANGED <<upload_state, state_file, clock, args, todo, uploads_this_run,
                   remote>>
    /\ UNCHANGED <<last, upVars>>

\* the summary is printed and main() returns: the process is gone
RetrySummary ==
    /\ pc = "summary"
    /\ pc' = "idle"
    /\ args' = NoArgs
    /\ todo' = <<>>
    /\ uploads_this_run' = 0
    /\ \E h \in {Settled(run, on_disk)} : run' = RetryHistory(h.pending, h.owed)
    /\ upload_state' = NoState
    /\ on_disk' = {}
    /\ UNCHANGED <<state_file, clock, remote>>
    /\ UNCHANGED <<last, upVars>>

NextRetry ==
    \/ \E a \in RetryArgs, dates \in RetryDates : RetryStart(a, dates)
    \/ \E disk \in RetryFolders : RetrySkipProcessing(disk)
    \/ \E o1 \in UploadOutcomes, o2 \in UploadOutcomes, reads \in ClockReads(clock) :
           UploadVideos(o1, o2, reads)
    \/ RetrySummary
    \/ Midnight

SpecRetry == InitRetry /\ [][NextRetry]_vars

----------------------------------------------------------------------------
(* SpecCrash: upload-only runs of main() in which every upload_video call    *)
(* succeeds, followed statement by statement through upload_videos; the      *)
(* process can be killed between any two statements and be started again.    *)

\* what the runs have done: the artifact block upload_videos is at, the
\* artifacts whose upload_video call returned and whose block was left, the
\* artifact (if any) whose upload_video call returned and whose block is not
\* finished,
\* uploads_today of the state on entry to the run, how the process ended
CrashHistory(kind, completed, inflight, today0, died) ==
    [kind |-> kind, completed |-> completed, inflight |-> inflight,
     today0 |-> today0, died |-> died]

\* main() starts: the state file is loaded (line 391)
CrashMainStart(a, dates) ==
    /\ pc = "idle"
    /\ ~json_load_raises(state_file)
    /\ args' = LoopArgs(a)
    /\ todo' = dates
    /\ uploads_this_run' = 0
    /\ upload_state' = load_upload_state(state_file)
    /\ run' = CrashHistory("full_video", {}, {},
                           get_uploads_today(upload_state', clock), "no")
    /\ on_disk' = {}
    /\ pc' = "upload_videos"
    /\ UNCHANGED <<state_file, clock, remote>>
    /\ UNCHANGED <<last, upVars>>

\* main() starts on a truncated state file: json.load raises, main() ends
\* with the traceback
CrashMainLoadRaises ==
    /\ pc = "idle"
    /\ json_load_raises(state_file)
    /\ run' = CrashHistory(None, {}, {}, 0, "JSONDecodeError")
    /\ UNCHANGED <<upload_state, state_file, clock, pc, args, todo,
                   uploads_this_run, on_disk, remote>>
    /\ UNCHANGED <<last, upVars>>

\* upload_videos is entered for the current date: the entry guard
EnterUploadVideos(disk) ==
    /\ pc = "upload_videos"
    /\ on_disk' = disk
    /\ run' = [run EXCEPT !.kind = ArtifactOrder[1]]
    /\ pc' = IF QuotaReached(uploads_this_run, args.max_uploads)
             THEN "return" ELSE "block"
    /\ UNCHANGED <<upload_state, state_file, clock, args, todo,
                   uploads_this_run, remote>>
    /\ UNCHANGED <<last, upVars>>

\* where upload_videos goes after the block of a kind
AfterBlock(kind) ==
    IF kind = ArtifactOrder[1]
    THEN [pc |-> "block", kind |-> ArtifactOrder[2]]
    ELSE [pc |-> "return", kind |-> kind]

\* the tests at the head of an artifact block
ArtifactBlock ==
    /\ pc = "block"
    /\ IF /\ ArtifactExists(on_disk, run.kind)
          /\ ~AlreadyUploaded(upload_state, CurrentDate, run.kind)
          /\ ~QuotaReached(uploads_this_run, args.max_uploads)
       THEN pc' = "upload_video" /\ run' = run
       ELSE /\ pc' = AfterBlock(run.kind).pc
            /\ run' = [run EXCEPT !.kind = AfterBlock(run.kind).kind]
    /\ UNCHANGED <<upload_state, state_file, clock, args, todo,
                   uploads_this_run, on_disk, remote>>
    /\ UNCHANGED <<last, upVars>>

\* upload_video returns: the video is on the remote once more (an artifact
\* whose run was killed before record_upload had written its entry is
\* uploaded again by the next run)
UploadVideoReturns ==
    /\ pc = "upload_video"
    /\ remote[<<CurrentDate, run.kind>>] < MaxRemote
    /\ remote' = [remote EXCEPT ![<<CurrentDate, run.kind>>] = @ + 1]
    /\ run' = [run EXCEPT !.inflight = {<<CurrentDate, run.kind>>}]
    /\ pc' = "record_upload"
    /\ UNCHANGED <<upload_state, state_file, clock, args, todo,
                   uploads_this_run, on_disk>>
    /\ UNCHANGED <<last, upVars>>

\* record_upload up to open(STATE_FILE, "w") in save_upload_state
RecordUploadOpens ==
    /\ pc = "record_upload"
    /\ upload_state' = record_upload(upload_state, CurrentDate, run.kind,
                                     VideoId(CurrentDate, run.kind,
                                             remote[<<CurrentDate, run.kind>>]),
                                     clock)
    /\ state_file' = Truncated
    /\ pc' = "record_upload_dump"
    /\ UNCHANGED <<clock, args, todo, uploads_this_run, on_disk, run, remote>>
    /\ UNCHANGED <<last, upVars>>

\* json.dump and the end of the with block: record_upload returns
RecordUploadDumps ==
    /\ pc = "record_upload_dump"
    /\ state_file' = save_upload_state(upload_state)
    /\ pc' = "increment_upload_count"
    /\ UNCHANGED <<upload_state, clock, args, todo, uploads_this_run, on_disk,
                   run, remote>>
    /\ UNCHANGED <<last, upVars>>

\* increment_upload_count up to open(STATE_FILE, "w") in save_upload_state
IncrementOpens ==
    /\ pc = "increment_upload_count"
    /\ upload_state' = increment_upload_count(upload_state, clock)
    /\ state_file' = Truncated
    /\ pc' = "increment_upload_count_dump"
    /\ UNCHANGED <<clock, args, todo, uploads_this_run, on_disk, run, remote>>
    /\ UNCHANGED <<last, upVars>>

\* json.dump and the end of the with block: increment_upload_count returns
IncrementDumps ==
    /\ pc = "increment_upload_count_dump"
    /\ state_file' = save_upload_state(upload_state)
    /\ pc' = "count"
    /\ UNCHANGED <<upload_state, clock, args, todo, uploads_this_run, on_disk,
                   run, remote>>
    /\ UNCHANGED <<last, upVars>>

\* uploads_this_run += 1 and the end of the block
CountUpload ==
    /\ pc = "count"
    /\ uploads_this_run' = uploads_this_run + 1
    /\ pc' = AfterBlock(run.kind).pc
    /\ run' = [run EXCEPT !.kind = AfterBlock(run.kind).kind,
                          !.completed = @ \cup run.inflight,
                          !.inflight = {}]
    /\ UNCHANGED <<upload_state, state_file, clock, args, todo, on_disk, remote>>
    /\ UNCHANGED <<last, upVars>>

\* upload_videos returns to main: the limit check, the next date
UploadVideosReturns ==
    /\ pc = "return"
    /\ todo' = Tail(todo)
    /\ pc' = IF LimitReached(uploads_this_run, args.max_uploads) \/ todo' = <<>>
             THEN "summary" ELSE "upload_videos"
    /\ UNCHANGED <<upload_state, state_file, clock, args, uploads_this_run,
                   on_disk, run, remote>>
    /\ UNCHANGED <<last, upVars>>

\* the summary is printed and main() returns
CrashSummary ==
    /\ pc = "summary"
    /\ pc' = "idle"
    /\ args' = NoArgs
    /\ todo' = <<>>
    /\ uploads_this_run' = 0
    /\ upload_state' = NoState
    /\ on_disk' = {}
    /\ run' = [run EXCEPT !.kind = None]
    /\ UNCHANGED <<state_file, clock, remote>>
    /\ UNCHANGED <<last, upVars>>

\* the process is killed (SIGKILL, power loss): memory is gone, the file is
\* as the last statement left it
Crash ==
    /\ pc # "idle"
    /\ pc' = "idle"
    /\ args' = NoArgs
    /\ todo' = <<>>
    /\ uploads_this_run' = 0
    /\ upload_state' = NoState
    /\ on_disk' = {}
    /\ run' = [run EXCEPT !.died = "killed"]
    /\ UNCHANGED <<state_file, clock, remote>>
    /\ UNCHANGED <<last, upVars>>

NextCrash ==
    \/ \E a \in UploadOnlyArgs, dates \in UploadOnlyDates : CrashMainStart(a, dates)
    \/ CrashMainLoadRaises
    \/ \E disk \in SUBSET Kinds : EnterUploadVideos(disk)
    \/ ArtifactBlock
    \/ UploadVideoReturns
    \/ RecordUploadOpens
    \/ RecordUploadDumps
    \/ IncrementOpens
    \/ IncrementDumps
    \/ CountUpload
    \/ UploadVideosReturns
    \/ CrashSummary
    \/ Crash

SpecCrash == Init /\ [][NextCrash]_vars

----------------------------------------------------------------------------
(* Properties of the Upload State Store, checked under SpecStore *)

Today == strftime(clock)

\* the entries of a dict: everything but _meta
EntriesOf(s) == [x \in DOMAIN s \ {META} |-> s[x]]

\* C4: get_uploads_today returns 0 whenever _meta.last_upload_date is not today
\* (null included), whatever uploads_today holds; it returns the stored
\* uploads_today when last_upload_date is today; it leaves the dict and the
\* file as they were.
C4_GetUploadsTodayRollover ==
    [][ last'.op = "get_uploads_today" =>
          /\ upload_state[META].last_upload_date # Today => last'.ret = 0
          /\ upload_state[META].last_upload_date = Today =>
                 last'.ret = upload_state[META].uploads_today
          /\ upload_state' = upload_state
          /\ state_file' = state_file ]_vars

\* C4 witness: the counter says MaxCount, dated yesterday, and the call returned 0
C4_Witness ==
    /\ last.op = "get_uploads_today"
    /\ clock >= 1
    /\ upload_state[META].last_upload_date = strftime(clock - 1)
    /\ upload_state[META].uploads_today = MaxCount
    /\ last.ret = 0

\* C5: increment_upload_count sets uploads_today = 1 and last_upload_date = today
\* when last_upload_date is not today, and adds exactly 1 otherwise; it persists
\* the dict, leaves every entry as it was, and get_uploads_today afterwards is
\* get_uploads_today before plus 1.
C5_IncrementUploadCount ==
    [][ last'.op = "increment_upload_count" =>
          /\ upload_state[META].last_upload_date # Today =>
                 upload_state'[META].uploads_today = 1
          /\ upload_state[META].last_upload_date = Today =>
                 upload_state'[META].uploads_today = upload_state[META].uploads_today + 1
          /\ upload_state'[META].last_upload_date = Today
          /\ state_file' # NoFile
          /\ load_upload_state(state_file') = upload_state'
          /\ EntriesOf(upload_state') = EntriesOf(upload_state)
          /\ get_uploads_today(upload_state', clock)
                 = get_uploads_today(upload_state, clock) + 1 ]_vars

\* C5 witness: on the second day, with an entry recorded, the counter was reset to 1
C5_Witness ==
    /\ last.op = "increment_upload_count"
    /\ clock = 1
    /\ upload_state[META].uploads_today = 1
    /\ Entries(upload_state) # {}

\* C6: record_upload leaves the id of the latest call in the entry, whatever the
\* entry held before; is_video_uploaded is true after the call, and it is true
\* exactly when an entry exists for the key; record_upload changes no entry of
\* another (date, kind) and does not change _meta.
C6_RecordLastWriteWins ==
    /\ [][ last'.op = "record_upload" =>
             /\ <<last'.date, last'.kind>> \in Entries(upload_state')
             /\ upload_state'[last'.date][last'.kind].youtube_id = last'.vid
             /\ is_video_uploaded(upload_state', last'.date, last'.kind)
             /\ \A d \in Dates, k \in Kinds :
                    <<d, k>> # <<last'.date, last'.kind>> =>
                        /\ (<<d, k>> \in Entries(upload_state'))
                               = (<<d, k>> \in Entries(upload_state))
                        /\ <<d, k>> \in Entries(upload_state) =>
                               upload_state'[d][k] = upload_state[d][k]
             /\ upload_state'[META] = upload_state[META] ]_vars
    /\ [](last.op = "is_video_uploaded" =>
             last.ret = (<<last.date, last.kind>> \in Entries(upload_state)))

\* C6 witness: a record_upload overwrote an entry that held another id
C6_Witness ==
    /\ last.op = "record_upload"
    /\ last.old # None
    /\ last.old # last.vid
    /\ upload_state[last.date][last.kind].youtube_id = last.vid

\* C7: with no state file, load_upload_state returns a dict whose _meta is
\* uploads_today = 0, last_upload_date = None and that has no entry; with a
\* file, it returns exactly the dict last saved.
C7_LoadUploadState ==
    last.op = "load_upload_state" =>
        IF state_file = NoFile
        THEN /\ DOMAIN upload_state = {META}
             /\ upload_state[META].uploads_today = 0
             /\ upload_state[META].last_upload_date = None
             /\ \A d \in Dates, k \in Kinds : <<d, k>> \notin Entries(upload_state)
        ELSE upload_state = last.saved

\* C7 witness: a load read back a file that holds entries and a counter
C7_Witness ==
    /\ last.op = "load_upload_state"
    /\ state_file # NoFile
    /\ Entries(upload_state) # {}
    /\ upload_state[META].uploads_today >= 1

----------------------------------------------------------------------------
(* Properties of _resumable_upload, checked under SpecUpload *)

\* the remote's latest answer was HTTP 403 with the quotaExceeded signal
QuotaAnswer == uph.ev = "http" /\ uph.status = 403 /\ uph.quota

\* the remote's latest answer was a retriable failure: HTTP 500/502/503/504
\* without that signal on a 403, or a transport error
RetriableAnswer ==
    \/ uph.ev = "transport"
    \/ uph.ev = "http" /\ uph.status \in {500, 502, 503, 504}

\* C8: in one _resumable_upload call the retry counter counts the retriable
\* failures; every next_chunk request is issued with retry <= MAX_RETRIES; at
\* most MAX_RETRIES backoff sleeps happen; once the counter exceeds
\* MAX_RETRIES the call has raised UploadFailedError without sleeping again.
C8_BoundedRetry ==
    upc # "idle" =>
        /\ retry = uph.failures
        /\ uph.req_retry <= MAX_RETRIES
        /\ uph.sleeps <= MAX_RETRIES
        /\ retry > MAX_RETRIES =>
               /\ upc = "raised"
               /\ uph.exc = "UploadFailedError"
               /\ uph.sleeps = MAX_RETRIES
        /\ (upc = "raised" /\ RetriableAnswer) => retry > MAX_RETRIES

\* C8 witness: the eleventh retriable failure ended the call after ten sleeps
C8_Witness ==
    /\ upc = "raised"
    /\ retry = MAX_RETRIES + 1
    /\ uph.sleeps = MAX_RETRIES
    /\ uph.exc = "UploadFailedError"

\* C9: k <= MAX_RETRIES retriable errors followed by the terminal response make
\* the call sleep exactly k times and return that response: a call that has
\* met at most MAX_RETRIES retriable failures has slept once per failure and
\* has not given up, and a call that returned returned what the remote sent.
C9_RetryThenSuccess ==
    /\ (upc \in {"loop", "returned"} /\ uph.failures <= MAX_RETRIES) =>
           uph.sleeps = uph.failures
    /\ (upc = "raised" /\ RetriableAnswer) => uph.failures = MAX_RETRIES + 1
    /\ upc = "returned" =>
           /\ uph.ev = "terminal"
           /\ response = uph.sent
           /\ uph.failures <= MAX_RETRIES
           /\ uph.acked = uph.chunks
           /\ uph.requests = uph.chunks + uph.failures

\* C9 witness: MAX_RETRIES retriable errors, then success
C9_Witness ==
    /\ upc = "returned"
    /\ uph.failures = MAX_RETRIES
    /\ uph.sleeps = MAX_RETRIES
    /\ response = uph.sent

\* C10: a next_chunk that fails with HTTP 403 and the quota signal, at the first
\* attempt or after earlier retries, ends the call with QuotaExceededError: the
\* retry counter is not incremented, no sleep follows, and no further
\* next_chunk request is issued.
C10_QuotaNotRetried ==
    /\ (upc # "idle" /\ QuotaAnswer) =>
           /\ upc = "raised"
           /\ uph.exc = "QuotaExceededError"
           /\ retry = uph.failures
           /\ uph.sleeps = uph.failures
           /\ uph.requests = uph.acked + uph.failures + 1
    /\ (upc # "idle" /\ uph.exc = "QuotaExceededError") => QuotaAnswer
    /\ upc = "raised" => ~ENABLED ChunkRequest

\* C10 witness: quotaExceeded on the first request, no retry and no sleep
C10_Witness ==
    /\ upc = "raised"
    /\ QuotaAnswer
    /\ uph.requests = 1
    /\ retry = 0
    /\ uph.sleeps = 0

\* the remote's latest answer was an HttpError that is neither retriable nor
\* the quota signal
FatalAnswer ==
    /\ uph.ev = "http"
    /\ uph.status \notin {500, 502, 503, 504}
    /\ ~(uph.status = 403 /\ uph.quota)

\* C11: a next_chunk that fails with an HttpError whose status is not
\* 500/502/503/504 and that is not the 403 quota signal ends the call with
\* UploadFailedError at once: the retry counter is not incremented, no sleep
\* follows, no further next_chunk request is issued; and UploadFailedError is
\* raised for nothing but such an answer or the exhausted retries.
C11_FatalHttpNotRetried ==
    /\ (upc \in {"loop", "raised", "returned"} /\ FatalAnswer) =>
           /\ upc = "raised"
           /\ uph.exc = "UploadFailedError"
           /\ retry = uph.failures
           /\ retry <= MAX_RETRIES
           /\ uph.sleeps = uph.failures
           /\ uph.requests = uph.acked + uph.failures + 1
           /\ ~ENABLED ChunkRequest
    /\ (upc = "raised" /\ uph.exc = "UploadFailedError") =>
           FatalAnswer \/ (RetriableAnswer /\ retry = MAX_RETRIES + 1)

\* C11 witness: a 403 without the quota signal, after one retried failure
C11_Witness ==
    /\ upc = "raised"
    /\ FatalAnswer
    /\ uph.status = 403
    /\ uph.exc = "UploadFailedError"
    /\ uph.failures = 1
    /\ uph.sleeps = 1

\* C12: upload() of a file that does not exist raises FileNotFoundError
\* before any network interaction: no service is fetched, no insert request
\* is made, no next_chunk request is issued, nothing is slept or retried, and
\* the call is over; FileNotFoundError is raised for no file that exists.
C12_MissingFileNoNetwork ==
    /\ (upc # "idle" /\ ~uph.file_exists) =>
           /\ upc = "raised"
           /\ uph.exc = "FileNotFoundError"
           /\ uph.net = {}
           /\ uph.requests = 0
           /\ uph.sleeps = 0
           /\ retry = 0
           /\ ~ENABLED ChunkRequest
    /\ (upc # "idle" /\ uph.file_exists) =>
           /\ uph.exc # "FileNotFoundError"
           /\ uph.net = NetworkSetup

\* C12 witness: the file is missing and the call has raised FileNotFoundError
C12_Witness ==
    /\ upc = "raised"
    /\ ~uph.file_exists
    /\ uph.exc = "FileNotFoundError"
    /\ uph.net = {}

----------------------------------------------------------------------------
(* Properties of the orchestrator, checked under Spec and SpecDays *)

InRun == pc \in {"date", "upload_videos", "summary"}

\* an upload_videos call of the current run has returned: on_disk, run.rec0,
\* run.used0 and run.att describe that call
AfterCall == pc \in {"date", "summary"}

Max0(n) == IF n > 0 THEN n ELSE 0

\* the (date, kind) pairs with an entry in a state dict
Recorded(s) == {x \in Dates \X Kinds : is_video_uploaded(s, x[1], x[2])}

\* C1: in a run, the upload_video calls that succeed number at most
\* max_uploads (none when max_uploads <= 0), and so do the calls made when
\* none of them failed; no upload_video call is made once uploads_this_run >=
\* max_uploads; every artifact the quota guard refused has no entry in the
\* upload state, in memory and in the file, at the end of the run.
C1_PerRunCeiling ==
    InRun =>
        /\ run.ok = uploads_this_run
        /\ run.ok <= Max0(args.max_uploads)
        /\ run.calls = run.ok => run.calls <= Max0(args.max_uploads)
        /\ ~run.over
        /\ pc = "summary" =>
               /\ run.refused \cap Recorded(upload_state) = {}
               /\ run.refused \cap Recorded(load_upload_state(state_file)) = {}

\* C1 witness: max_uploads = 2 and three eligible artifacts: two calls, both
\* successful, the third artifact refused
C1_Witness ==
    /\ pc = "summary"
    /\ args.max_uploads = 2
    /\ run.calls = 2
    /\ run.ok = 2
    /\ run.refused # {}

\* C1 as first stated, for max_uploads >= 1: the calls made, failed ones
\* included, number at most max_uploads
C1_CallsAtMostMaxUploads ==
    (InRun /\ args.max_uploads >= 1) =>
        /\ run.calls <= args.max_uploads
        /\ ~run.over
        /\ pc = "summary" => run.refused \cap Recorded(upload_state) = {}

\* C2: for every (date, kind) the upload state, in the file and in memory,
\* holds an entry exactly when the artifact has been uploaded successfully, and
\* no artifact has been uploaded successfully more than once.
C2_UploadIdempotence ==
    \A x \in Dates \X Kinds :
        /\ remote[x] <= 1
        /\ x \in Recorded(load_upload_state(state_file)) <=> remote[x] = 1
        /\ upload_state # NoState => (x \in Recorded(upload_state) <=> remote[x] = 1)

\* C2 witness: on a later day, a run has visited a date whose two artifacts
\* are on disk and recorded, and has called upload_video for neither
C2_Witness ==
    /\ pc = "summary"
    /\ clock >= 1
    /\ on_disk = Kinds
    /\ run.rec0 = Kinds
    /\ run.att = {}
    /\ run.calls = 0
    /\ \E x \in Dates \X Kinds : remote[x] = 1

\* C3: upload_videos calls upload_video for no artifact that was recorded when
\* it was entered, and only for artifacts present on disk and not recorded;
\* when one artifact is recorded and the other is on disk and not recorded, the
\* other is attempted provided uploads_this_run < max_uploads on entry.
C3_SkipRecorded ==
    AfterCall =>
        /\ run.att \cap run.rec0 = {}
        /\ run.att \subseteq on_disk \ run.rec0
        /\ \A k \in Kinds :
               ( /\ Kinds \ {k} \subseteq run.rec0
                 /\ k \in on_disk \ run.rec0
                 /\ run.used0 < args.max_uploads ) => k \in run.att

\* C3 witness: the full video was recorded, both files are on disk, and only
\* the highlights were attempted
C3_Witness ==
    /\ AfterCall
    /\ run.rec0 = {"full_video"}
    /\ on_disk = Kinds
    /\ run.att = {"highlights"}

\* C3 as first stated: the other artifact is attempted whatever max_uploads is
C3_OtherAlwaysAttempted ==
    AfterCall =>
        /\ run.att \cap run.rec0 = {}
        /\ run.att \subseteq on_disk \ run.rec0
        /\ \A k \in Kinds :
               ( /\ Kinds \ {k} \subseteq run.rec0
                 /\ k \in on_disk \ run.rec0 ) => k \in run.att

\* the kinds of the upload_video calls of the latest upload_videos call, in
\* their order
SeqKinds == [i \in DOMAIN run.seq |-> run.seq[i].kind]

\* C13: the date loop handles the dates in the order given: every
\* process_folder and upload_videos call is made for the first of the dates
\* not yet handled, and that date leaves the list only when its iteration is
\* over; within an iteration process_folder (unless --upload-only) comes
\* first and upload_videos (when uploading) follows for the same date before
\* the next date begins; within upload_videos the full video is attempted
\* before the highlights.
C13_Ordering ==
    /\ [][ /\ pc = "date" =>
                /\ ~args.upload_only =>
                       /\ run'.call.name = "process_folder"
                       /\ run'.call.date = Head(todo)
                /\ args.upload_only => run'.call = NoCall
                /\ IF args.upload
                   THEN pc' = "upload_videos" /\ todo' = todo
                   ELSE /\ todo' = Tail(todo)
                        /\ pc' = IF todo' = <<>> THEN "summary" ELSE "date"
           /\ pc = "upload_videos" =>
                /\ ~args.upload_only =>
                       /\ run.call.name = "process_folder"
                       /\ run.call.date = Head(todo)
                /\ run'.call.name = "upload_videos"
                /\ run'.call.date = Head(todo)
                /\ todo' = Tail(todo)
                /\ pc' \in {"date", "summary"}
                /\ pc' = "date" => todo' # <<>> ]_vars
    /\ [](AfterCall =>
            SeqKinds \in {<<>>, <<"full_video">>, <<"highlights">>,
                          <<"full_video", "highlights">>})

\* C13 witness: the caller gave 2025-01-20 before 2025-01-13; upload_videos
\* has attempted the full video, then the highlights of 2025-01-20 after
\* process_folder, and 2025-01-13 is still to come
C13_Witness ==
    /\ pc = "date"
    /\ ~args.upload_only
    /\ run.call = LoopCall("upload_videos", "2025-01-20", "done")
    /\ SeqKinds = <<"full_video", "highlights">>
    /\ todo = <<"2025-01-13">>

\* C14: after an upload step the loop goes on to a next date only while
\* uploads_this_run < max_uploads; a run ends with dates not visited only
\* because uploads_this_run >= max_uploads after an upload step, and then
\* neither process_folder nor upload_videos is called again; a run in which
\* that did not happen has visited every date.
C14_EarlyHalt ==
    InRun =>
        /\ (pc = "date" /\ run.call.name = "upload_videos") =>
               uploads_this_run < args.max_uploads
        /\ pc = "summary" =>
               /\ todo # <<>> =>
                      /\ run.call.name = "upload_videos"
                      /\ uploads_this_run >= args.max_uploads
               /\ ~(run.call.name = "upload_videos"
                    /\ uploads_this_run >= args.max_uploads) => todo = <<>>
               /\ ~ENABLED LoopStep

\* C14 witness: the run stopped at its limit of two uploads with a date left
C14_Witness ==
    /\ pc = "summary"
    /\ args.max_uploads = 2
    /\ uploads_this_run = 2
    /\ run.call.name = "upload_videos"
    /\ todo # <<>>

\* the latest call of the date loop was a process_folder that ended in error
ProcessFailed == run.call.name = "process_folder" /\ run.call.end = "error"

\* the upload_video calls of the latest upload_videos call that raised
FailedUploads == {i \in DOMAIN run.seq : run.seq[i].outcome # "ok"}

\* C15: a failure never aborts the batch. After a process_folder that failed
\* the run goes on as after one that succeeded: to upload_videos for the same
\* date when uploading, else to the next date; after a failed upload of the
\* full video the highlights of the same date are still attempted when they
\* are on disk and not recorded; an upload_videos call whose uploads all
\* failed never ends the run while dates remain; and every run in which
\* something failed reaches its summary.
C15_FailureIsolation ==
    /\ [](InRun =>
            /\ ProcessFailed =>
                   IF args.upload
                   THEN /\ pc = "upload_videos"
                        /\ todo # <<>>
                        /\ Head(todo) = run.call.date
                   ELSE /\ pc \in {"date", "summary"}
                        /\ pc = "summary" => todo = <<>>
            /\ (AfterCall /\ run.call.name = "upload_videos") =>
                   /\ ( /\ 1 \in FailedUploads
                        /\ run.seq[1].kind = "full_video"
                        /\ "highlights" \in on_disk \ run.rec0 ) =>
                          /\ Len(run.seq) = 2
                          /\ run.seq[2].kind = "highlights"
                   /\ ( /\ run.seq # <<>>
                        /\ FailedUploads = DOMAIN run.seq
                        /\ pc = "summary" ) => todo = <<>>)
    /\ (InRun /\ (ProcessFailed \/ FailedUploads # {})) ~> (pc = "summary")

\* C15 witness: processing failed for a date, then every upload of two dates
\* failed, and the run is at its summary with no date left
C15_Witness ==
    /\ pc = "summary"
    /\ todo = <<>>
    /\ ~args.upload_only
    /\ run.calls = 4
    /\ run.ok = 0
    /\ run.call.name = "upload_videos"
    /\ Len(run.seq) = 2
    /\ FailedUploads = {1, 2}

\* C16: once an upload_video call of a run has raised QuotaExceededError for
\* a kind of artifact, no later upload_videos call of the run calls
\* upload_video for that kind.
C16_QuotaExceededEndsKind ==
    [][pc = "upload_videos" =>
          \A i \in DOMAIN run'.seq : run'.seq[i].kind \notin run.quota]_vars

\* C17: with --dry-run, whatever the dates and the other flags, main only
\* reports: it never enters the date loop (no process_folder, no
\* upload_videos, no upload_video call), and entering and leaving the dry run
\* changes neither the state file nor anything uploaded.
C17_DryRunNoMutation ==
    /\ []((args # NoArgs /\ args.dry_run) =>
            /\ pc = "dry_run"
            /\ run = NoRun
            /\ upload_state = NoState
            /\ uploads_this_run = 0
            /\ ~ENABLED LoopStep)
    /\ [][(pc = "dry_run" \/ pc' = "dry_run") =>
            UNCHANGED <<state_file, upload_state, remote, on_disk,
                        uploads_this_run, run, clock>>]_vars

\* C17 witness: a dry run asked with --upload and --force for two dates,
\* while the state file holds the uploads of an earlier run
C17_Witness ==
    /\ pc = "dry_run"
    /\ args.dry_run /\ args.upload /\ args.force
    /\ Len(todo) = 2
    /\ state_file # NoFile

\* C18: record_upload and increment_upload_count each write the whole state
\* to the state file before they return, so whenever a process holds the
\* state in memory, between any two calls, the state file holds the same
\* state: loading it gives the in-memory state.
C18_ImmediatePersistence ==
    /\ [][last'.op \in {"record_upload", "increment_upload_count"} =>
            /\ state_file' = json_dump(upload_state')
            /\ json_load(state_file') = upload_state']_vars
    /\ [](Loaded => load_upload_state(state_file) = upload_state)

\* C18 witness: a record and two increments have been made, the last call
\* was an increment, and the file holds the record and the count
C18_Witness ==
    /\ Loaded
    /\ last.op = "increment_upload_count"
    /\ last.nrec >= 1
    /\ upload_state[META]["uploads_today"] >= 2
    /\ state_file # NoFile
    /\ json_load(state_file) = upload_state

\* the entries a state file holds
PersistedEntries(file) ==
    IF file = NoFile \/ json_load_raises(file) THEN {} ELSE Entries(json_load(file))

\* uploads_today as a state file holds it
PersistedCount(file) ==
    IF file = NoFile \/ json_load_raises(file) THEN 0
    ELSE get_uploads_today(json_load(file), clock)

\* C19: when the process is killed, at whatever point of the run, the state
\* file has lost at most the upload in flight: every upload of the run that
\* was completed before it has its entry in the file and is counted in the
\* file's uploads_today, and at most one artifact the run has put on the
\* remote has no entry.
C19_CrashLosesAtMostInFlight ==
    (pc = "idle" /\ run # NoRun /\ run.died = "killed") =>
        /\ run.completed \subseteq PersistedEntries(state_file)
        /\ PersistedCount(state_file) >= run.today0 + Cardinality(run.completed)
        /\ Cardinality((run.completed \cup run.inflight)
                           \ PersistedEntries(state_file)) <= 1

\* the upload_video calls of the latest upload_videos call that succeeded
OkUploads(seq) == {i \in DOMAIN seq : seq[i].outcome = "ok"}

\* C20: upload_videos prints the daily warning once, on entry, exactly when
\* the per-run guard has passed and uploads_today read there is at least the
\* warning threshold; the warning blocks nothing: the first artifact of the
\* date that is on disk and not recorded is still attempted, uploads_this_run
\* grows only by the uploads that succeed, and without a successful upload
\* the state and the state file are left as they were.
C20_WarningAtEntry ==
    [][(pc = "upload_videos" /\ pc' # pc) =>
         /\ run'.warned <=>
               /\ get_uploads_today(upload_state, clock) >= UPLOAD_WARNING_THRESHOLD
               /\ ~QuotaReached(uploads_this_run, args.max_uploads)
         /\ run'.warned =>
               /\ \A k \in Kinds :
                     ( /\ k \in on_disk
                       /\ ~is_video_uploaded(upload_state, Head(todo), k)
                       /\ k = "highlights" =>
                             \/ "full_video" \notin on_disk
                             \/ is_video_uploaded(upload_state, Head(todo), "full_video") )
                     => (run'.seq # <<>> /\ run'.seq[1].kind = k)
               /\ uploads_this_run' =
                      uploads_this_run + Cardinality(OkUploads(run'.seq))
               /\ OkUploads(run'.seq) = {} =>
                      UNCHANGED <<upload_state, state_file>>]_vars

\* the claim as stated: every upload_video call made while uploads_today is
\* at least the warning threshold comes after a warning of its upload_videos
\* call
C20_WarningBeforeEveryUpload ==
    (AfterCall /\ run.call.name = "upload_videos") =>
        \A i \in DOMAIN run.seq :
            run.seq[i].today >= UPLOAD_WARNING_THRESHOLD => run.warned

\* C20 witness: the warning was printed with six uploads on the day, and both
\* videos of the date were uploaded after it
C20_Witness ==
    /\ AfterCall
    /\ run.call.name = "upload_videos"
    /\ run.warned
    /\ Len(run.seq) = 2
    /\ run.seq[1].today = UPLOAD_WARNING_THRESHOLD
    /\ OkUploads(run.seq) = {1, 2}
    /\ uploads_this_run = run.used0 + 2

\* the successful upload_video calls of seq that increment_upload_count
\* counted on day t
CountedOn(seq, t) == {i \in DOMAIN seq : seq[i].outcome = "ok" /\ seq[i].day = t}

\* the kinds whose upload_video call failed in the upload_videos call that
\* led to run history h
FailedKinds(h) == {h.seq[i].kind : i \in {j \in DOMAIN h.seq : h.seq[j].outcome # "ok"}}

\* C21: an upload that fails, or that the quota guard refuses, stops cleanly.
\* After the upload_videos call the artifact has no entry, in memory or in
\* the state file, and is not on the remote; uploads_this_run has grown only
\* by the uploads of the call that succeeded and the count of the day the
\* call ends on only by those of them that were counted on that day, and a
\* call without a successful upload leaves state, file and counter as they
\* were. The artifact stays eligible: it has no entry in the state file as
\* long as no upload of it succeeds, the next run starts from the state
\* file as the run left it, and every upload_videos call attempts each
\* artifact that is on disk and has no entry unless the quota guard refuses
\* it, which it does only at uploads_this_run >= max_uploads. The next run
\* that lists its date attempts it again or finds its file missing, unless
\* the run ends with uploads_this_run >= max_uploads and either the quota
\* guard has refused the artifact or the date loop has stopped before its
\* date.
C21_CleanStop ==
    /\ [][(pc = "upload_videos" /\ pc' # pc) =>
            LET d == Head(todo)
                stopped == FailedKinds(run') \cup
                              {k \in Kinds : <<d, k>> \in run'.refused \ run.refused}
                ok == Cardinality(OkUploads(run'.seq))
            IN  /\ \A k \in stopped :
                      /\ ~is_video_uploaded(upload_state', d, k)
                      /\ <<d, k>> \notin PersistedEntries(state_file')
                      /\ remote'[<<d, k>>] = remote[<<d, k>>]
                /\ uploads_this_run' = uploads_this_run + ok
                /\ get_uploads_today(upload_state', clock') =
                       get_uploads_today(upload_state, clock') +
                           Cardinality(CountedOn(run'.seq, clock'))
                /\ ok = 0 => UNCHANGED <<upload_state, state_file, uploads_this_run,
                                         clock>>
                /\ \A k \in Kinds :
                      (k \in on_disk /\ ~is_video_uploaded(upload_state, d, k)) =>
                          \/ k \in run'.att
                          \/ /\ <<d, k>> \in run'.refused
                             /\ uploads_this_run' >= args.max_uploads ]_vars
    /\ [][(pc = "idle" /\ pc' = "date") =>
            /\ state_file' = state_file
            /\ upload_state' = load_upload_state(state_file)
            /\ uploads_this_run' = 0
            /\ \A x \in run.pending : ~is_video_uploaded(upload_state', x[1], x[2])
            /\ run'.owed = {x \in run.pending : x[1] \in {todo'[i] : i \in DOMAIN todo'}}
          ]_vars
    /\ [][pc = "summary" =>
            /\ state_file' = state_file
            /\ pc' = "idle" =>
                  \A x \in run'.owed :
                      /\ uploads_this_run >= args.max_uploads
                      /\ x \in run.refused \/ x[1] \in {todo[i] : i \in DOMAIN todo}
          ]_vars
    /\ [](\A x \in Settled(run, on_disk).pending : x \notin PersistedEntries(state_file))

\* the claim as stated: when a run has ended, it has attempted every
\* artifact whose upload failed or was refused in an earlier run, whose date
\* it listed and whose file it did not find missing
C21_AttemptedByNextRun == pc = "idle" => run.owed = {}

\* C21 witness: the upload of the full video failed or was refused in an
\* earlier run and the state kept no entry for it; the current run lists its
\* date, has attempted it again and has uploaded it
C21_Witness ==
    /\ AfterCall
    /\ run.call.name = "upload_videos"
    /\ <<run.call.date, "full_video">> \in run.owed
    /\ <<run.call.date, "full_video">> \in run.pending
    /\ "full_video" \notin run.rec0
    /\ "full_video" \in run.att
    /\ \E i \in DOMAIN run.seq :
          run.seq[i].kind = "full_video" /\ run.seq[i].outcome = "ok"
    /\ is_video_uploaded(upload_state, run.call.date, "full_video")
    /\ remote[<<run.call.date, "full_video">>] = 1

\* the failures of a run: process_folder results with an error, upload_video
\* calls that raised
RunFailures == errors(run.results) + run.upload_failures

\* C22: when the summary has been printed, a run in which something failed
\* shows it in the counts: the counts are printed and the error count is at
\* least the number of failures.
C22_SummaryComplete ==
    (pc = "printed" /\ RunFailures > 0) =>
        /\ run.printed.counts
        /\ run.printed.errors >= RunFailures

\* the entries of a state dict written on day now
UploadedOn(s, now) ==
    {e \in Entries(s) : s[e[1]][e[2]].uploaded_at[1] = strftime(now)}

\* C23: the orchestrator keeps a count of the day's uploads and caps each
\* run, but no total for the day: uploads_today is the number of entries
\* written today, or one more when an upload was recorded before midnight and
\* counted after it, a run uploads at most max_uploads videos, and a run that
\* starts with the warning threshold reached is not stopped by it.
C23_DailyCountNotCapped ==
    InRun =>
        /\ get_uploads_today(upload_state, clock) >=
               Cardinality(UploadedOn(upload_state, clock))
        /\ get_uploads_today(upload_state, clock) <=
               Cardinality(UploadedOn(upload_state, clock)) + 1
        /\ uploads_this_run <= Max0(args.max_uploads)
        /\ (pc = "upload_videos"
            /\ uploads_this_run < args.max_uploads
            /\ on_disk \ {k \in Kinds : is_video_uploaded(upload_state, Head(todo), k)} # {})
               => ENABLED (\E o1 \in {"ok"}, o2 \in {"ok"} :
                              UploadVideos(o1, o2, SameDay(clock))
                              /\ uploads_this_run' > uploads_this_run)

\* the claim as stated: the uploads of a day never exceed the warning
\* threshold
C23_DailyBudget ==
    Loaded => get_uploads_today(upload_state, clock) <= UPLOAD_WARNING_THRESHOLD

\* C23 witness: six uploads were made earlier in the day; a run has added two
\* more, after the warning, and the day stands at eight
C23_Witness ==
    /\ pc = "summary"
    /\ run.warned
    /\ uploads_this_run = 2
    /\ get_uploads_today(upload_state, clock) = UPLOAD_WARNING_THRESHOLD + 2
    /\ Cardinality(UploadedOn(upload_state, clock)) = UPLOAD_WARNING_THRESHOLD + 2

----------------------------------------------------------------------------
(* Properties of the subclip loop, checked under SpecClip *)

\* the chain 0 <= start <= end <= duration, as Python compares: False as
\* soon as a bound is nan
C24_InOrder ==
    /\ run.start.kind = "num" /\ run.end.kind = "num"
    /\ 0 <= run.start.v /\ run.start.v <= run.end.v /\ run.end.v <= run.duration

\* C24: a timestamp t > duration gives no subclip; any other timestamp, nan
\* included, gives the subclip [max(t - before, 0), min(t + after,
\* duration)]: for a number the clamped values, for nan [nan, nan], for -inf
\* [0, -inf]. Its bounds satisfy 0 <= start <= end <= duration exactly when
\* t is a number with t + after >= 0, t - before <= duration and before +
\* after >= 0, and 0 <= start <= t <= end <= duration exactly when t is a
\* number with t >= 0, before >= 0 and after >= 0.
C24_SubclipBoundsExactly ==
    pc = "timestamp" =>
        /\ run.made <=> \/ run.t.kind \in {"nan", "-inf"}
                        \/ run.t.kind = "num" /\ run.t.v <= run.duration
        /\ (run.made /\ run.t.kind = "num") =>
              /\ run.start = Num(IF run.t.v - run.before_goal > 0
                                 THEN run.t.v - run.before_goal ELSE 0)
              /\ run.end = Num(IF run.t.v + run.after_goal < run.duration
                               THEN run.t.v + run.after_goal ELSE run.duration)
        /\ (run.made /\ run.t.kind = "nan") => (run.start = NaN /\ run.end = NaN)
        /\ (run.made /\ run.t.kind = "-inf") => (run.start = Num(0) /\ run.end = NegInf)
        /\ run.made =>
              (C24_InOrder <=>
                  /\ run.t.kind = "num"
                  /\ run.t.v + run.after_goal >= 0
                  /\ run.t.v - run.before_goal <= run.duration
                  /\ run.before_goal + run.after_goal >= 0)
        /\ run.made =>
              ((C24_InOrder /\ run.start.v <= run.t.v /\ run.t.v <= run.end.v) <=>
                  /\ run.t.kind = "num"
                  /\ run.t.v >= 0
                  /\ run.before_goal >= 0
                  /\ run.after_goal >= 0)

\* the claim as stated: every timestamp that is not beyond the duration
\* gives a subclip with 0 <= start <= end <= duration
C24_SubclipBounds ==
    (pc = "timestamp" /\ ~exceeds_duration(run.t, run.duration)) =>
        /\ run.made
        /\ C24_InOrder

\* C24 witness: t = 3661.5 s with the window 8 s / 4 s in a clip of 4000 s
\* gives [3653.5 s, 3665.5 s]
C24_Witness ==
    /\ pc = "timestamp"
    /\ run.t = Num(7323) /\ run.before_goal = 16 /\ run.after_goal = 8
    /\ run.duration = 8000
    /\ run.made
    /\ run.start = Num(7307)
    /\ run.end = Num(7331)

----------------------------------------------------------------------------
(* Effect of uploads on the state, checked under SpecDays *)

\* C25: each upload_video call that succeeds adds exactly one entry, under
\* the date and kind of the artifact and with the id the call returned, and
\* raises uploads_this_run and today's count by one: over an upload_videos
\* call the new entries are those of the successful calls, uploads_this_run
\* grows by their number, and the count of the day the call ends on grows by
\* the number of them counted on that day, which is all of them unless
\* midnight passed during the call. uploads_this_run starts a run at 0, never decreases
\* during it, and no step other than a successful upload changes it.
C25_SuccessfulUploadEffect ==
    /\ [][(pc = "upload_videos" /\ pc' # pc) =>
            LET d == Head(todo)
                okKinds == {run'.seq[i].kind : i \in OkUploads(run'.seq)}
                new == Recorded(upload_state') \ Recorded(upload_state)
            IN  /\ new = {<<d, k>> : k \in okKinds}
                /\ Cardinality(new) = Cardinality(OkUploads(run'.seq))
                /\ \A x \in new :
                      /\ remote'[x] = remote[x] + 1
                      /\ upload_state'[x[1]][x[2]].youtube_id =
                             VideoId(x[1], x[2], remote'[x])
                /\ \A x \in (Dates \X Kinds) \ new : remote'[x] = remote[x]
                /\ uploads_this_run' = uploads_this_run + Cardinality(new)
                /\ get_uploads_today(upload_state', clock') =
                       get_uploads_today(upload_state, clock') +
                           Cardinality(CountedOn(run'.seq, clock'))
                /\ clock' = clock =>
                       CountedOn(run'.seq, clock') = OkUploads(run'.seq)
                /\ \A i \in OkUploads(run'.seq) :
                       /\ run'.seq[i].day \in clock..clock'
                       /\ \A j \in OkUploads(run'.seq) :
                              j < i => run'.seq[j].day <= run'.seq[i].day
                /\ Cardinality(new) = 0 => uploads_this_run' = uploads_this_run ]_vars
    /\ [][(pc = "idle" /\ pc' = "date") => uploads_this_run' = 0]_vars
    /\ [][(InRun /\ InRun') => uploads_this_run' >= uploads_this_run]_vars
    /\ [][(InRun /\ InRun' /\ pc # "upload_videos") =>
            uploads_this_run' = uploads_this_run]_vars

\* C25 witness: both artifacts on disk, neither recorded, max_uploads = 4: the
\* first upload_videos call of the run leaves two entries and
\* uploads_this_run = 2
C25_Witness ==
    /\ AfterCall
    /\ run.call.name = "upload_videos"
    /\ args.max_uploads = MAX_UPLOADS_PER_RUN
    /\ on_disk = Kinds
    /\ run.rec0 = {}
    /\ run.used0 = 0
    /\ Len(run.seq) = 2
    /\ OkUploads(run.seq) = {1, 2}
    /\ is_video_uploaded(upload_state, run.call.date, "full_video")
    /\ is_video_uploaded(upload_state, run.call.date, "highlights")
    /\ uploads_this_run = 2

\* C26: under the orchestrator an upload record never changes: an entry of
\* the state file is in the file after every step, of a run or of the
\* uploader CLI, with the same youtube_id and uploaded_at, an entry of the
\* dict in memory stays as it is for the rest of the run, and a run starts
\* with the entries of the file as they are.
C26_RecordsImmutable ==
    /\ [][ \A x \in Recorded(load_upload_state(state_file)) :
              /\ x \in Recorded(load_upload_state(state_file'))
              /\ load_upload_state(state_file')[x[1]][x[2]] =
                     load_upload_state(state_file)[x[1]][x[2]] ]_vars
    /\ [][ (upload_state # NoState /\ upload_state' # NoState) =>
              \A x \in Recorded(upload_state) :
                  /\ x \in Recorded(upload_state')
                  /\ upload_state'[x[1]][x[2]] = upload_state[x[1]][x[2]] ]_vars
    /\ [][ (upload_state = NoState /\ upload_state' # NoState) =>
              \A x \in Recorded(load_upload_state(state_file)) :
                  /\ x \in Recorded(upload_state')
                  /\ upload_state'[x[1]][x[2]] =
                         load_upload_state(state_file)[x[1]][x[2]] ]_vars

\* C26 witness: the full video of a date was uploaded and recorded on day
\* 0; while the run waited for the upload of the highlights the CLI uploaded
\* the full video once more; the run has recorded and counted the highlights
\* on day 1, and the entry of the full video still holds the first id and the
\* time of day 0
C26_Witness ==
    /\ pc = "loop"
    /\ clock = 1
    /\ run.job = {}
    /\ Counted(<<"2025-01-13", "full_video">>, 0, 0) \in run.log
    /\ Counted(<<"2025-01-13", "highlights">>, 1, 1) \in run.log
    /\ remote[<<"2025-01-13", "full_video">>] = 2
    /\ upload_state["2025-01-13"]["full_video"].youtube_id =
           VideoId("2025-01-13", "full_video", 1)
    /\ upload_state["2025-01-13"]["highlights"].youtube_id =
           VideoId("2025-01-13", "highlights", 1)
    /\ upload_state["2025-01-13"]["full_video"].uploaded_at = isoformat(0)
    /\ upload_state["2025-01-13"]["highlights"].uploaded_at = isoformat(1)
    /\ json_load(state_file) = upload_state

----------------------------------------------------------------------------
(* The date loop as a state machine, checked under Spec *)

\* C27: a date whose processing step ended in error does not enter the
\* uploading step in that run: when a run that processes is about to call
\* upload_videos for a date, the process_folder call for that date did not
\* fail.
C27_NoUploadingAfterError ==
    (pc = "upload_videos" /\ ~args.upload_only) =>
        /\ run.call.name = "process_folder"
        /\ run.call.date = Head(todo)
        /\ run.call.end = "done"

\* C28: uploads happen only on request. In a run with neither --upload nor
\* --upload-only upload_videos is never entered, upload_video is never
\* called, no step of the run writes the state file or puts anything on the
\* remote, and the run reaches its summary only with every date visited;
\* with --upload-only process_folder is never called.
C28_UploadsOnlyOnRequest ==
    /\ []((InRun /\ ~args.upload /\ ~args.upload_only) =>
            /\ pc # "upload_videos"
            /\ run.call.name # "upload_videos"
            /\ run.calls = 0
            /\ run.seq = <<>>
            /\ uploads_this_run = 0
            /\ pc = "summary" => todo = <<>>)
    /\ [][(InRun /\ ~args.upload /\ ~args.upload_only) =>
            (state_file' = state_file /\ remote' = remote)]_vars
    /\ []((InRun /\ args.upload_only) => run.call.name # "process_folder")
    /\ [][(InRun /\ args.upload_only /\ pc = "date") => pc' = "upload_videos"]_vars

\* C28 witness: a run without --upload, after an earlier run has written the
\* state file, has processed its last date and is at its summary
C28_Witness ==
    /\ pc = "summary"
    /\ ~args.upload /\ ~args.upload_only
    /\ run.call.name = "process_folder"
    /\ run.call.end = "done"
    /\ todo = <<>>
    /\ state_file # NoFile
    /\ \E x \in Dates \X Kinds : remote[x] = 1

----------------------------------------------------------------------------
(* The processing step, checked under SpecResults *)

\* C29: for a date folder that exists and has source files, process_folder
\* runs the processing command exactly when force is set, or the full video
\* is missing, or the highlights are missing and a splits CSV exists. When
\* both artifacts exist and force is not set the command is not run; whenever
\* it is not run both actions of the result are "skipped"; when it is run and
\* exits non-zero both actions are "error".
C29_ProcessingDecision ==
    (pc # "idle" /\ ~args.upload_only /\ run.results # <<>>
        /\ run.st.exists /\ run.st.mp4_count # 0) =>
        LET st == run.st
            result == run.results[Len(run.results)]
        IN  /\ run.ran <=> \/ args.force
                           \/ ~st.has_full_video
                           \/ (~st.has_highlights /\ st.has_splits_csv)
            /\ (st.has_full_video /\ st.has_highlights /\ ~args.force) => ~run.ran
            /\ ~run.ran => result = Result("skipped", "skipped")
            /\ (run.ran /\ ~run.exit_ok) => result = Result("error", "error")
            /\ (run.ran /\ run.exit_ok) =>
                   (result.full_video # "error" /\ result.highlights # "error")

\* C29 witness: without --force, the command was run for a folder that held
\* the full video and a splits CSV but no highlights, and exited non-zero:
\* both actions are "error"
C29_Witness ==
    /\ pc # "idle"
    /\ ~args.upload_only /\ ~args.force
    /\ run.results # <<>>
    /\ run.st.exists /\ run.st.mp4_count # 0
    /\ run.st.has_full_video /\ ~run.st.has_highlights /\ run.st.has_splits_csv
    /\ run.ran /\ ~run.exit_ok
    /\ run.results[Len(run.results)] = Result("error", "error")

----------------------------------------------------------------------------
(* Two processes on one state file, checked under SpecTwo *)

\* a save of some process is under way: the file is open and not yet written
C30_Saving == \E p \in Procs : run.procs[p].at \in {"recording", "incrementing"}

\* C30: as long as no process has been started while another was running,
\* no load raises and the file is never garbled; while a save is under way
\* the file is empty, and at every other moment it holds every entry
\* record_upload has saved and its uploads_today is the number of
\* increment_upload_count calls made that day; no artifact is uploaded
\* twice. The lost updates of the witness need two processes running at the
\* same time.
C30_SingleProcessLosesNothing ==
    ~run.overlap =>
        /\ ~run.raised
        /\ "garbled" \notin DOMAIN state_file
        /\ C30_Saving => state_file = Truncated
        /\ ~C30_Saving =>
              /\ ~json_load_raises(state_file)
              /\ run.recorded \subseteq PersistedEntries(state_file)
              /\ PersistedCount(state_file) = run.counted
        /\ \A x \in Dates \X Kinds : remote[x] <= 1

\* C30 witness: two processes have run at the same time and have returned;
\* the file can be loaded, its uploads_today is smaller than the number of
\* uploads that succeeded, and an entry one process recorded is not in the
\* file the other process saved
C30_Witness ==
    /\ run.overlap
    /\ \A p \in Procs : run.procs[p].at = "idle"
    /\ ~json_load_raises(state_file)
    /\ run.counted = 2
    /\ PersistedCount(state_file) < run.counted
    /\ run.recorded \ PersistedEntries(state_file) # {}

----------------------------------------------------------------------------
(* The persisted counter, checked under SpecClock *)

\* the day of the calendar a date string names
DayOf(date) == CHOOSE t \in 0 .. (Len(Calendar) - 1) : Calendar[t + 1] = date

\* the latest day on which increment_upload_count ran
LastCounted == CHOOSE t \in {u.counted : u \in run.log} :
                   \A u \in run.log : u.counted <= t

\* no midnight has passed between the record_upload and the
\* increment_upload_count of an upload
NoMidnightInBlock == \A u \in run.log : u.recorded = u.counted

\* C31: after any sequence of crash-free runs, one after the other, the
\* state file has an entry for every upload that succeeded, dated the day
\* record_upload ran; if last_upload_date is not null then uploads_today >= 1;
\* last_upload_date is the latest day on which increment_upload_count ran and
\* uploads_today is the number of uploads counted on that day. When no
\* midnight passed between the recording and the counting of an upload, that
\* is: last_upload_date is the date of the most recent entry, and on that day
\* uploads_today is the number of entries recorded today.
C31_CounterCountsIncrements ==
    (pc = "idle" /\ state_file # NoFile) =>
        LET s == json_load(state_file)
            m == s[META]
        IN  /\ run.log # {}
            /\ Entries(s) = {u.key : u \in run.log}
            /\ \A u \in run.log :
                   s[u.key[1]][u.key[2]].uploaded_at = isoformat(u.recorded)
            /\ m.last_upload_date # None
            /\ m.uploads_today >= 1
            /\ m.last_upload_date = strftime(LastCounted)
            /\ m.uploads_today =
                   Cardinality({u \in run.log : u.counted = LastCounted})
            /\ NoMidnightInBlock =>
                   /\ \A e \in Entries(s) :
                          DayOf(s[e[1]][e[2]].uploaded_at[1]) <= DayOf(m.last_upload_date)
                   /\ \E e \in Entries(s) :
                          s[e[1]][e[2]].uploaded_at[1] = m.last_upload_date
                   /\ m.last_upload_date = strftime(clock) =>
                          m.uploads_today = Cardinality(UploadedOn(s, clock))

\* the claim as stated: whenever last_upload_date is today, uploads_today is
\* the number of entries recorded today, and last_upload_date is the date of
\* the most recent entry
C31_CounterConsistency ==
    (pc = "idle" /\ state_file # NoFile) =>
        LET s == json_load(state_file)
            m == s[META]
        IN  /\ m.last_upload_date # None => m.uploads_today >= 1
            /\ m.last_upload_date = strftime(clock) =>
                   m.uploads_today = Cardinality(UploadedOn(s, clock))
            /\ m.last_upload_date # None =>
                   /\ \A e \in Entries(s) :
                          DayOf(s[e[1]][e[2]].uploaded_at[1]) <= DayOf(m.last_upload_date)
                   /\ \E e \in Entries(s) :
                          s[e[1]][e[2]].uploaded_at[1] = m.last_upload_date

\* C31 witness: runs on two days, no midnight inside an upload; the file
\* holds two entries of the first day and one of today, and uploads_today = 1
C31_Witness ==
    /\ pc = "idle"
    /\ state_file # NoFile
    /\ clock = 1
    /\ NoMidnightInBlock
    /\ Cardinality({u \in run.log : u.counted = 0}) = 2
    /\ Cardinality({u \in run.log : u.counted = 1}) = 1
    /\ json_load(state_file)[META].last_upload_date = strftime(1)
    /\ json_load(state_file)[META].uploads_today = 1
    /\ Cardinality(UploadedOn(json_load(state_file), 1)) = 1

----------------------------------------------------------------------------
(* The retry budget of _resumable_upload, checked under SpecUpload *)

\* C32: the retry budget is per upload, not per chunk. A next_chunk that
\* succeeds, acknowledging a chunk or returning the terminal response, leaves
\* the retry counter as it is; the counter never decreases during a call and
\* always equals the number of retriable failures met since the call began;
\* so a call goes on only while it has met at most MAX_RETRIES retriable
\* failures in all, and the failure after those ends it with
\* UploadFailedError, however many chunks were acknowledged in between.
C32_RetryBudgetPerUpload ==
    /\ [][(InCall /\ uph'.requests = uph.requests + 1
                  /\ uph'.ev \in {"progress", "terminal"}) =>
             (retry' = retry /\ uph'.failures = uph.failures)]_vars
    /\ [][(InCall /\ uph'.requests = uph.requests + 1) => retry' >= retry]_vars
    /\ [](upc # "idle" =>
             /\ retry = uph.failures
             /\ upc \in {"loop", "returned"} => uph.failures <= MAX_RETRIES
             /\ uph.failures > MAX_RETRIES =>
                    /\ uph.failures = MAX_RETRIES + 1
                    /\ upc = "raised"
                    /\ uph.exc = "UploadFailedError")

\* C32 witness: a chunk has just been acknowledged after MAX_RETRIES retriable
\* failures, and the counter still stands at MAX_RETRIES
C32_Witness ==
    /\ upc = "loop"
    /\ uph.ev = "progress"
    /\ uph.acked >= 1
    /\ uph.failures = MAX_RETRIES
    /\ uph.req_retry = MAX_RETRIES
    /\ retry = MAX_RETRIES

\* C33: every _resumable_upload call ends. A call issues at most one request
\* per chunk of the file and one per retriable failure, of which there are at
\* most MAX_RETRIES + 1; a call in progress eventually returns or raises,
\* whatever the remote answers; a call that returned returned the terminal
\* response, and a call that raised after entering the loop raised
\* QuotaExceededError or UploadFailedError.
C33_UploadTerminates ==
    /\ [](upc # "idle" =>
             /\ uph.acked <= uph.chunks
             /\ uph.failures <= MAX_RETRIES + 1
             /\ uph.requests <= uph.chunks + MAX_RETRIES + 1
             /\ upc = "returned" => (uph.ev = "terminal" /\ response = uph.sent)
             /\ (upc = "raised" /\ uph.requests > 0) =>
                    uph.exc \in {"QuotaExceededError", "UploadFailedError"})
    /\ (InCall ~> (upc \in {"returned", "raised"}))

\* C33 witness: a call for a file of two chunks has ended with the terminal
\* response after both chunks and MAX_RETRIES retriable failures
C33_Witness ==
    /\ upc = "returned"
    /\ uph.chunks = 2
    /\ uph.acked = 2
    /\ uph.failures = MAX_RETRIES
    /\ uph.requests = 2 + MAX_RETRIES
    /\ response = uph.sent

----------------------------------------------------------------------------
(* The backoff sleeps, checked under SpecBackoff *)

\* C34: the sleep before the n-th retry, n being the retry counter after its
\* increment, is random.random() * 2^n seconds, a value in [0, 2^n); n is
\* between 1 and MAX_RETRIES, so no sleep of a call reaches 1024 seconds.
\* (Sleeps are counted in units of 1 / Resolution seconds.)
C34_BackoffBound ==
    (upc # "idle" /\ run.n # 0) =>
        /\ run.n = (IF upc = "raised" /\ retry > MAX_RETRIES THEN retry - 1 ELSE retry)
        /\ 1 <= run.n /\ run.n <= MAX_RETRIES
        /\ run.sleep = run.u * 2^run.n
        /\ 0 <= run.sleep /\ run.sleep < Resolution * 2^run.n
        /\ run.sleep < Resolution * 1024
        /\ run.longest < Resolution * 1024

\* C34 witness: the sleep before the tenth retry with the largest random
\* value: (Resolution - 1) / Resolution * 1024 seconds
C34_Witness ==
    /\ upc = "loop"
    /\ retry = MAX_RETRIES
    /\ run.n = MAX_RETRIES
    /\ run.u = Resolution - 1
    /\ run.sleep = (Resolution - 1) * 1024
    /\ run.longest = run.sleep

====
